---- MODULE Spec2Model ----
(***************************************************************************)
(* A model of the 3D scene editor: Model3D instances and the static        *)
(* duplicates ledger (Model3D.js), the scene list (ModelSelector), the     *)
(* properties editor, the scene loader, one preview canvas                 *)
(* (PreviewCanvas.js) and the main render tick (renderCallBack).           *)
(*                                                                         *)
(* JavaScript runs one handler at a time; a handler gives up control only  *)
(* at an await.  Every action below is one handler, or the part of an      *)
(* async handler between two awaits.                                       *)
(***************************************************************************)
EXTENDS Integers, Sequences, FiniteSets, TLC

(***************************************************************************)
(* Bounds of the model.                                                    *)
(***************************************************************************)
MaxModels == 3        \* Model3D instances ever constructed
MaxQueue == 2         \* canvas clicks waiting in created_models
MaxSceneLen == 2      \* entries of a loaded scene file
MaxLoads == 2         \* preview loads in flight at once
MaxCallbacks == 2     \* preview renderLoop callbacks scheduled at once
MaxFrames == 1        \* frames a preview model is drawn for

(***************************************************************************)
(* Inputs.  There are two model files, "a.obj" and "a_1.obj".  A model     *)
(* name is the sequence of its '_'-separated parts with "a" written 1, so  *)
(* the file names are <<1>> and <<1, 1>> and name + '_' + i is             *)
(* Append(name, i).                                                        *)
(***************************************************************************)
Paths == {"a.obj", "a_1.obj"}
NoPath == ""
NoName == << >>
NoModel == 0

getFileNameFromPath(path) == IF path = "a.obj" THEN <<1>> ELSE <<1, 1>>

\* geometries in the parsed .obj file: one Object3D is built for each
Geometries(path) == IF path = "a.obj" THEN 1 ELSE 2

(***************************************************************************)
(* GraphicsMath.  A matrix is the 16-tuple of the Float32Array, index k of *)
(* the code at position k + 1.  Angles are counted in quarter turns, where *)
(* cosine and sine are exact.                                              *)
(***************************************************************************)
Cos(q) == CASE q % 4 = 0 -> 1 [] q % 4 = 1 -> 0 [] q % 4 = 2 -> -1 [] OTHER -> 0
Sin(q) == CASE q % 4 = 0 -> 0 [] q % 4 = 1 -> 1 [] q % 4 = 2 -> 0 [] OTHER -> -1

createIdentityMatrix ==
    << 1, 0, 0, 0,
       0, 1, 0, 0,
       0, 0, 1, 0,
       0, 0, 0, 1 >>

\* what a Float32Array keeps of a whole number below 2^25: 24 bits of it,
\* a tie going to the even neighbour
Float32Exact == 16777216

fround(x) ==
    LET a == IF x < 0 THEN -x ELSE x
        q == a \div 2
        r == IF a < Float32Exact \/ a % 2 = 0 THEN a
             ELSE IF q % 2 = 0 THEN 2 * q ELSE 2 * (q + 1)
    IN  IF x < 0 THEN -r ELSE r

\* the Float32Array a loop has filled: entry k of the code is f[k + 1]; the
\* entries the loops of this module store are float32 numbers already
Float32Array16(f) ==
    << f[1], f[2], f[3], f[4], f[5], f[6], f[7], f[8],
       f[9], f[10], f[11], f[12], f[13], f[14], f[15], f[16] >>

\* a quarter turn of the sixteen entries in place of the transposition
turnMatrix(matrix) ==
    Float32Array16([n \in 1..16 |-> LET i == (n - 1) \div 4
                                        j == (n - 1) % 4
                                    IN  matrix[(3 - j) * 4 + i + 1]])

transposeMatrix(matrix) ==
    Float32Array16([n \in 1..16 |-> LET i == (n - 1) \div 4
                                        j == (n - 1) % 4
                                    IN  matrix[j * 4 + i + 1]])

createRotationMatrix(angle, axis) ==
    LET c == Cos(angle)
        s == Sin(angle)
        matrix == CASE axis = "x" -> << 1, 0, 0, 0,
                                       0, c, -s, 0,
                                       0, s, c, 0,
                                       0, 0, 0, 1 >>
                    [] axis = "y" -> << c, 0, s, 0,
                                       0, 1, 0, 0,
                                       -s, 0, c, 0,
                                       0, 0, 0, 1 >>
                    [] axis = "z" -> << c, -s, 0, 0,
                                       s, c, 0, 0,
                                       0, 0, 1, 0,
                                       0, 0, 0, 1 >>
                    [] OTHER -> createIdentityMatrix
    IN  transposeMatrix(matrix)

createTranslationMatrix(x, y, z) ==
    << 1, 0, 0, 0,
       0, 1, 0, 0,
       0, 0, 1, 0,
       x, y, z, 1 >>

createScaleMatrix(x, y, z) ==
    << x, 0, 0, 0,
       0, y, 0, 0,
       0, 0, z, 0,
       0, 0, 0, 1 >>

\* the product taken in the other order
multiplyMatricesReversed(A, B) ==
    Float32Array16([n \in 1..16 |-> LET j == (n - 1) \div 4
                                        i == (n - 1) % 4
                                    IN  B[0 * 4 + i + 1] * A[j * 4 + 0 + 1]
                                      + B[1 * 4 + i + 1] * A[j * 4 + 1 + 1]
                                      + B[2 * 4 + i + 1] * A[j * 4 + 2 + 1]
                                      + B[3 * 4 + i + 1] * A[j * 4 + 3 + 1]])

multiplyMatrices(A, B) ==
    Float32Array16([n \in 1..16 |-> LET j == (n - 1) \div 4
                                        i == (n - 1) % 4
                                    IN  A[0 * 4 + i + 1] * B[j * 4 + 0 + 1]
                                      + A[1 * 4 + i + 1] * B[j * 4 + 1 + 1]
                                      + A[2 * 4 + i + 1] * B[j * 4 + 2 + 1]
                                      + A[3 * 4 + i + 1] * B[j * 4 + 3 + 1]])

(***************************************************************************)
(* Transformation dictionaries: translation, rotation and scale, each an   *)
(* <<x, y, z>>.                                                            *)
(***************************************************************************)
DefaultDict == [translation |-> <<0, 0, 0>>, rotation |-> <<0, 0, 0>>, scale |-> <<1, 1, 1>>]

\* what the user can type into the properties panel, or a scene file hold
EditedDict == [translation |-> <<1, 0, 2>>, rotation |-> <<1, 0, 0>>, scale |-> <<1, 2, 1>>]

Dicts == {DefaultDict, EditedDict}

\* the composition with the scale outermost and the translation innermost
TransformationMatrixScaleLast(dictionary) ==
    LET t == dictionary.translation
        r == dictionary.rotation
        s == dictionary.scale
        t_m == createTranslationMatrix(t[1], t[2], t[3])
        r_x_m == createRotationMatrix(r[1], "x")
        r_y_m == createRotationMatrix(r[2], "y")
        r_z_m == createRotationMatrix(r[3], "z")
        r_xy_m == multiplyMatrices(r_x_m, r_y_m)
        r_xyz_m == multiplyMatrices(r_xy_m, r_z_m)
        s_m == createScaleMatrix(s[1], s[2], s[3])
    IN  multiplyMatrices(s_m, multiplyMatrices(r_xyz_m, t_m))

\* Model3D.setTransformation: the matrix of a dictionary
TransformationMatrixOf(dictionary) ==
    LET t == dictionary.translation
        r == dictionary.rotation
        s == dictionary.scale
        t_m == createTranslationMatrix(t[1], t[2], t[3])
        r_x_m == createRotationMatrix(r[1], "x")
        r_y_m == createRotationMatrix(r[2], "y")
        r_z_m == createRotationMatrix(r[3], "z")
        r_xy_m == multiplyMatrices(r_x_m, r_y_m)
        r_xyz_m == multiplyMatrices(r_xy_m, r_z_m)
        s_m == createScaleMatrix(s[1], s[2], s[3])
        s_r == multiplyMatrices(r_xyz_m, s_m)
        s_r_p == multiplyMatrices(t_m, s_r)
    IN  s_r_p

\* Vec4: <<x, y, z, w>>
applyTransformationMatrix(this, matrix) ==
    LET rm == transposeMatrix(matrix)
    IN  << rm[1] * this[1] + rm[2] * this[2] + rm[3] * this[3] + rm[4] * this[4],
           rm[5] * this[1] + rm[6] * this[2] + rm[7] * this[3] + rm[8] * this[4],
           rm[9] * this[1] + rm[10] * this[2] + rm[11] * this[3] + rm[12] * this[4],
           this[4] >>

\* the dictionaries setTransformation is tried on
MaxCoordinate == 1
MaxScale == 2
Coordinates == (-1)..MaxCoordinate
Scales == 1..MaxScale
QuarterTurns == 0..3
QuarterTurnDicts ==
    [translation : Coordinates \X Coordinates \X Coordinates,
     rotation : QuarterTurns \X QuarterTurns \X QuarterTurns,
     scale : Scales \X Scales \X Scales]

\* the origin and the unit axis points
AxisPoints == {<<0, 0, 0, 1>>, <<1, 0, 0, 1>>, <<0, 1, 0, 1>>, <<0, 0, 1, 1>>}

\* a model that has been given no transformation yet
NewTransformation(dictionary) ==
    [pc |-> "new", dictionary |-> dictionary, matrix |-> createIdentityMatrix,
     point |-> <<0, 0, 0, 1>>, image |-> <<0, 0, 0, 1>>]

(***************************************************************************)
(* Camera.  camera.sum_x and camera.sum_y are history: the deltas rotate   *)
(* was given for axis 'x' and axis 'y'; camera.last is the last call.      *)
(***************************************************************************)
Vec4_add(this, B) ==
    << this[1] + B[1], this[2] + B[2], this[3] + B[3],
       IF this[4] + B[4] > 1 THEN 1 ELSE this[4] + B[4] >>

Vec4_scale(this, scalar) == << this[1] * scalar, this[2] * scalar, this[3] * scalar, this[4] >>

MaxLocation == 1
MaxDirection == 2

\* main.js: new Camera(new Vec4(0, 0, -10, 1))
StartLocation == <<0, 0, -10, 1>>

Locations ==
    {Vec4_add(StartLocation, <<x, y, z, 0>>) :
         x \in (-MaxLocation)..MaxLocation, y \in (-MaxLocation)..MaxLocation,
         z \in (-MaxLocation)..MaxLocation}

\* directions of the pad: every combination of -1, 0, 1 and the longer axis directions
Directions ==
    {<<x, y, z, 0>> : x \in (-1)..1, y \in (-1)..1, z \in (-1)..1}
        \cup {<<MaxDirection, 0, 0, 0>>, <<0, MaxDirection, 0, 0>>, <<0, 0, MaxDirection, 0>>}

\* the angle of the camera about an axis, in quarter turns
Turns == (-1)..2
Deltas == (-1)..1
Speeds == 1..2
Axes == {"x", "y", "z"}

NoCall == [call |-> "none", from |-> StartLocation, direction |-> <<0, 0, 0, 0>>, speed |-> 0]

NewCamera(location) ==
    [location |-> location, angle_x |-> 0, angle_y |-> 0,
     camera_rotation_matrix |-> createIdentityMatrix,
     sum_x |-> 0, sum_y |-> 0, last |-> NoCall]

\* the movement of a camera that is taken never to pitch
transformMovementByYaw(input, yawRad, pitchRad) ==
    LET finalX == input[1] * Cos(yawRad) + input[3] * Sin(yawRad)
        finalZ == input[3] * Cos(yawRad) - input[1] * Sin(yawRad)
    IN  << finalX, 0, finalZ, 1 >>

transformMovement(input, yawRad, pitchRad) ==
    LET forwardX == Cos(pitchRad) * Sin(yawRad)
        forwardY == Sin(pitchRad)
        forwardZ == Cos(pitchRad) * Cos(yawRad)
        rightX == Cos(yawRad)
        rightZ == -Sin(yawRad)
        finalX == input[1] * rightX + input[3] * forwardX
        finalY == input[3] * forwardY
        finalZ == input[1] * rightZ + input[3] * forwardZ
    IN  << finalX, finalY, finalZ, 1 >>

\* move without the adjustment for the pad's y value
moveOnThePlane(c, direction, speed) ==
    LET move == transformMovement(direction, -c.angle_y, c.angle_x)
    IN  [c EXCEPT !.location = Vec4_add(@, Vec4_scale(move, speed))]

move(c, direction, speed) ==
    LET move == transformMovement(direction, -c.angle_y, c.angle_x)
        adjusted == [move EXCEPT ![2] = @ + direction[2]]
    IN  [c EXCEPT !.location = Vec4_add(@, Vec4_scale(adjusted, speed))]

\* rotate taking every axis but 'y' for 'x'
rotateAboutXByDefault(c, angle, axis) ==
    LET angle_x == IF axis # "y" THEN c.angle_x + angle ELSE c.angle_x
        angle_y == IF axis = "y" THEN c.angle_y + angle ELSE c.angle_y
        rotation_x == createRotationMatrix(angle_x, "x")
        rotation_y == createRotationMatrix(angle_y, "y")
    IN  [c EXCEPT !.angle_x = angle_x, !.angle_y = angle_y,
                  !.camera_rotation_matrix = multiplyMatrices(rotation_x, rotation_y)]

rotate(c, angle, axis) ==
    LET angle_x == IF axis = "x" THEN c.angle_x + angle ELSE c.angle_x
        angle_y == IF axis = "x" THEN c.angle_y
                   ELSE IF axis = "y" THEN c.angle_y + angle ELSE c.angle_y
        rotation_x == createRotationMatrix(angle_x, "x")
        rotation_y == createRotationMatrix(angle_y, "y")
    IN  [c EXCEPT !.angle_x = angle_x, !.angle_y = angle_y,
                  !.camera_rotation_matrix = multiplyMatrices(rotation_x, rotation_y)]

getCameraMatrix(c) ==
    LET camera_translation ==
            createTranslationMatrix(-c.location[1], -c.location[2], -c.location[3])
    IN  multiplyMatrices(c.camera_rotation_matrix, camera_translation)

(***************************************************************************)
(* Array helpers with JavaScript's 0-based indices.                        *)
(***************************************************************************)
\* Array.prototype.indexOf: the first index holding x, or -1
indexOf(array, x) ==
    IF \E k \in 1..Len(array) : array[k] = x
    THEN (CHOOSE k \in 1..Len(array) :
              array[k] = x /\ \A l \in 1..(k - 1) : array[l] # x) - 1
    ELSE -1

includes(array, x) == \E k \in 1..Len(array) : array[k] = x

\* array.splice(index, 1): a negative index counts from the end of the array
splice(array, index) ==
    LET start == IF index < 0
                 THEN (IF Len(array) + index < 0 THEN 0 ELSE Len(array) + index)
                 ELSE (IF index > Len(array) THEN Len(array) ELSE index)
    IN  [k \in 1..(IF start < Len(array) THEN Len(array) - 1 ELSE Len(array)) |->
             IF k <= start THEN array[k] ELSE array[k + 1]]

\* array[index] = value: index -1 names a property, not an element
setAt(array, index, value) ==
    IF index >= 0 /\ index < Len(array)
    THEN [array EXCEPT ![index + 1] = value]
    ELSE array

(***************************************************************************)
(* Model3D.  The heap is a record [models, mapping, calls]:                *)
(*   models   the Model3D instances ever constructed, by identity;         *)
(*   mapping  Model3D.#models_duplicates_mapping: for every path, whether  *)
(*            it is a key of the object and the names listed under it;     *)
(*   calls    for every Object3D, the deleteObject calls made on it.       *)
(* An Object3D is <<m, g>>: geometry g of the file the instance m loaded.  *)
(***************************************************************************)
ObjectIds == (1..MaxModels) \X (1..2)

\* new Model3D(name, model_path, parsed_obj_data, ...) and #createObjects
NewModel3D(id, name, model_path, n_geometries) ==
    [ name |-> name,
      model_path |-> model_path,
      objects |-> [g \in 1..n_geometries |-> <<id, g>>],
      transformation_dict |-> DefaultDict,
      transformation_matrix |-> createIdentityMatrix,
      model_texture_id |-> 0,
      duplicate_of |-> NoModel,       \* history: the instance it was duplicated from
      of_deleted |-> FALSE,           \* history: that instance was deleted by then
      deletes |-> 0 ]                 \* history: deleteModel calls made on it, counted up to 2

\* the ledger with no keys; delete mapping[path] puts a path back to this
NoDuplicates == [present |-> FALSE, names |-> << >>]

checkIfModelHasDuplicates(h, model_path) == h.mapping[model_path].present

\* FileLoader.load3DObject, once the files have arrived
load3DObject(h, object_path) ==
    [h EXCEPT !.models = Append(@, NewModel3D(Len(h.models) + 1,
                             getFileNameFromPath(object_path), object_path,
                             Geometries(object_path)))]

setTransformation(h, m, dictionary) ==
    [h EXCEPT !.models[m].transformation_matrix = TransformationMatrixOf(dictionary),
              !.models[m].transformation_dict = dictionary]

\* the texture object and id are set before the image arrives
setTexture(h, m, texture_img_id) ==
    [h EXCEPT !.models[m].model_texture_id = texture_img_id]

clearTexture(h, m) == [h EXCEPT !.models[m].model_texture_id = 0]

hasTexture(h, m) == h.models[m].model_texture_id # 0

renameModel(h, m, new_name) ==
    LET this == h.models[m]
        mapped == IF checkIfModelHasDuplicates(h, this.model_path)
                  THEN LET index == indexOf(h.mapping[this.model_path].names, this.name)
                       IN  [h.mapping EXCEPT ![this.model_path].names = setAt(@, index, new_name)]
                  ELSE h.mapping
    IN  [h EXCEPT !.mapping = mapped, !.models[m].name = new_name]

\* Object3D.deleteObject on every object of the array
deleteObjects(calls, objects) ==
    [o \in DOMAIN calls |-> IF includes(objects, o) THEN calls[o] + 1 ELSE calls[o]]

\* deleteModel without its "delete mapping[path]": the key stays with no names
deleteModelKeepingKey(h, m) ==
    LET this == h.models[m]
        counted == [h EXCEPT !.models[m].deletes = IF @ < 2 THEN @ + 1 ELSE @]
        freed == [counted EXCEPT !.calls = deleteObjects(@, this.objects),
                                 !.models[m].objects = << >>]
    IN  IF checkIfModelHasDuplicates(h, this.model_path)
        THEN LET index == indexOf(h.mapping[this.model_path].names, this.name)
                 duplicates == splice(h.mapping[this.model_path].names, index)
                 cleared == clearTexture(counted, m)
             IN  IF Len(duplicates) > 0
                 THEN [cleared EXCEPT !.mapping[this.model_path].names = duplicates]
                 ELSE [cleared EXCEPT !.mapping[this.model_path].names = duplicates,
                                      !.calls = deleteObjects(@, this.objects),
                                      !.models[m].objects = << >>]
        ELSE freed

deleteModel(h, m) ==
    LET this == h.models[m]
        counted == [h EXCEPT !.models[m].deletes = IF @ < 2 THEN @ + 1 ELSE @]
        freed == [counted EXCEPT !.calls = deleteObjects(@, this.objects),
                                 !.models[m].objects = << >>]
    IN  IF checkIfModelHasDuplicates(h, this.model_path)
        THEN LET index == indexOf(h.mapping[this.model_path].names, this.name)
                 duplicates == splice(h.mapping[this.model_path].names, index)
                 cleared == clearTexture(counted, m)
             IN  IF Len(duplicates) > 0
                 THEN [cleared EXCEPT !.mapping[this.model_path].names = duplicates]
                 ELSE [cleared EXCEPT !.mapping[this.model_path] = NoDuplicates,
                                      !.calls = deleteObjects(@, this.objects),
                                      !.models[m].objects = << >>]
        ELSE freed

\* duplicateModel without the entry for the 'original' model
duplicateModelUnregistered(h, m) ==
    LET this == h.models[m]
        path == this.model_path
        new_model == [NewModel3D(Len(h.models) + 1, this.name, path, 0)
                          EXCEPT !.objects = this.objects, !.duplicate_of = m,
                                 !.of_deleted = this.deletes > 0]
        keyed == IF ~checkIfModelHasDuplicates(h, path)
                 THEN [h.mapping EXCEPT ![path] = [present |-> TRUE, names |-> << >>]]
                 ELSE h.mapping
        both == [keyed EXCEPT ![new_model.model_path].names = Append(@, new_model.name)]
    IN  [h EXCEPT !.models = Append(@, new_model), !.mapping = both]

duplicateModel(h, m) ==
    LET this == h.models[m]
        path == this.model_path
        new_model == [NewModel3D(Len(h.models) + 1, this.name, path, 0)
                          EXCEPT !.objects = this.objects, !.duplicate_of = m,
                                 !.of_deleted = this.deletes > 0]
        keyed == IF ~checkIfModelHasDuplicates(h, path)
                 THEN [h.mapping EXCEPT ![path] = [present |-> TRUE, names |-> << >>]]
                 ELSE h.mapping
        original == IF ~includes(keyed[path].names, this.name)
                    THEN [keyed EXCEPT ![path].names = Append(@, this.name)]
                    ELSE keyed
        both == [original EXCEPT ![new_model.model_path].names = Append(@, new_model.name)]
    IN  [h EXCEPT !.models = Append(@, new_model), !.mapping = both]

(***************************************************************************)
(* The state.                                                              *)
(***************************************************************************)
VARIABLES
    models,                     \* every Model3D constructed so far
    models_duplicates_mapping,  \* Model3D.#models_duplicates_mapping
    deleteObject_calls,         \* Object3D -> deleteObject calls made on it
    selector,                   \* ModelSelector: #models_mapping, #loaded_models_paths, #selected_model_name
    editor,                     \* PropertiesEditor: the panel's fields and texture flags
    created_models,             \* ModelCreatorMenu.#created_models
    main,                       \* main.js: models_to_render and the position of renderCallBack
    scene_loader,               \* SceneLoaderSaver.#loadScene: the position of the onload handler
    preview,                    \* one PreviewCanvas: #model, #render_enabled, loads and callbacks pending, models loaded
    hist,                       \* history: what the last handler's calls returned, what a tick saw
    pacing,                     \* the end of a tick: its two timestamps and how the next one is requested
    transformation,             \* a dictionary, the matrix setTransformation makes of it, a point and its image
    camera,                     \* main.js: the Camera, with the deltas it has been given
    pipeline,                   \* model, view and projection matrices and a point taken through them
    normals,                    \* an Object3D's vertices and the normals #calculateNormals gives them
    matrices,                   \* a Float32Array of sixteen numbers, its transpose and the transpose of that
    controls,                   \* CameraControls: the sticks and the pads
    menu                        \* ModelCreatorMenu: the list of paths, the page shown, the last clicks

vars == << models, models_duplicates_mapping, deleteObject_calls, selector, editor,
           created_models, main, scene_loader, preview, hist,
           pacing, transformation, camera, pipeline, normals, matrices, controls, menu >>

\* the scene, the panels and the canvases
editor_vars == << models, models_duplicates_mapping, deleteObject_calls, selector, editor,
                  created_models, main, scene_loader, preview, hist >>

\* the whole state as one record, for the handlers that run several calls in a
\* row; a handler starts with no duplicateModel, renameModel or addModelToList
\* call made yet
World ==
    [ h |-> [models |-> models, mapping |-> models_duplicates_mapping, calls |-> deleteObject_calls],
      selector |-> selector,
      editor |-> editor,
      created_models |-> created_models,
      main |-> main,
      scene_loader |-> scene_loader,
      preview |-> preview,
      hist |-> [hist EXCEPT !.dup = << >>, !.rename = << >>, !.add = << >>] ]

Commit(w) ==
    /\ models' = w.h.models
    /\ models_duplicates_mapping' = w.h.mapping
    /\ deleteObject_calls' = w.h.calls
    /\ selector' = w.selector
    /\ editor' = w.editor
    /\ created_models' = w.created_models
    /\ main' = w.main
    /\ scene_loader' = w.scene_loader
    /\ preview' = w.preview
    /\ hist' = w.hist
    /\ UNCHANGED << pacing, transformation, camera, pipeline, normals, matrices, controls, menu >>

(***************************************************************************)
(* PropertiesEditor.  The panel shows the rotation in degrees.             *)
(***************************************************************************)
degToRad(degrees) == degrees \div 90
radToDeg(rad) == rad * 90

\* the one image file the user can pick as a texture
TextureImage == 1

clearProperties(e) ==
    [e EXCEPT !.position = <<0, 0, 0>>, !.rotation = <<0, 0, 0>>, !.scale = <<1, 1, 1>>,
              !.current_texture_id = 0, !.clear_texture = FALSE, !.set_new_texture = FALSE]

loadTransformationsProperties(e, properties_dict) ==
    [e EXCEPT !.position = properties_dict.translation,
              !.rotation = [k \in 1..3 |-> radToDeg(properties_dict.rotation[k])],
              !.scale = properties_dict.scale]

readTransformationsProperties(e) ==
    [ translation |-> e.position,
      rotation |-> [k \in 1..3 |-> degToRad(e.rotation[k])],
      scale |-> e.scale ]

\* texture_properties comes from Model3D.getTextureProperties
loadTextureProperties(e, model) ==
    [e EXCEPT !.current_texture_id = model.model_texture_id,
              !.clear_texture = FALSE, !.set_new_texture = FALSE]

readTextureProperties(e) ==
    [ properties |-> [set_texture |-> e.set_new_texture, image_id |-> e.current_texture_id,
                      clear |-> e.clear_texture],
      editor |-> [e EXCEPT !.clear_texture = FALSE, !.set_new_texture = FALSE] ]

\* the change handler of the image input
img_input_change(e, new_img_id) ==
    IF e.current_texture_id = new_img_id
    THEN [e EXCEPT !.clear_texture = FALSE, !.set_new_texture = FALSE]
    ELSE [e EXCEPT !.current_texture_id = new_img_id, !.set_new_texture = TRUE,
                   !.clear_texture = FALSE]

\* PropertiesEditor.clearTexture, the click handler of the clear button
clearTextureClick(e) ==
    [e EXCEPT !.clear_texture = TRUE, !.set_new_texture = FALSE, !.current_texture_id = 0]

(***************************************************************************)
(* ModelSelector.  #models_mapping is kept as the sequence of its entries  *)
(* [key, model] in insertion order, the order Object.values lists them in. *)
(***************************************************************************)
Keys(mapping) == {mapping[k].key : k \in 1..Len(mapping)}

Lookup(mapping, key) == mapping[CHOOSE k \in 1..Len(mapping) : mapping[k].key = key].model

get3DModelsList(sel) == [k \in 1..Len(sel.models_mapping) |-> sel.models_mapping[k].model]

\* the objects a heap change called deleteObject on
Deleted(before, after) == {o \in ObjectIds : after.calls[o] > before.calls[o]}

InFlight(m) == m.pc \in {"load", "texture"}

\* history: deleteObject calls made while a render tick is between two of its awaits
NoteDeleted(w, h2) ==
    [w EXCEPT !.h = h2,
              !.hist.tick_deleted = IF InFlight(w.main) THEN @ \cup Deleted(w.h, h2) ELSE @]

\* a call of renameModel, and what it did to the list of the model's path
callRenameModel(w, m, new_name) ==
    LET path == w.h.models[m].model_path
        h2 == renameModel(w.h, m, new_name)
    IN  [w EXCEPT !.h = h2,
                  !.hist.rename = << [model |-> m, old_name |-> w.h.models[m].name,
                                      new_name |-> new_name, model_path |-> path,
                                      names |-> [x \in 1..Len(w.h.models) |-> w.h.models[x].name],
                                      users |-> {x \in 1..Len(w.h.models) :
                                                    /\ w.h.models[x].model_path = path
                                                    /\ w.h.models[x].deletes = 0},
                                      before |-> w.h.mapping, after |-> h2.mapping] >>]

\* a call of duplicateModel, and what it returned
callDuplicateModel(w, m) ==
    LET h2 == duplicateModel(w.h, m)
        copy == Len(h2.models)
    IN  [w EXCEPT !.h = h2,
                  !.hist.dup = << [source |-> h2.models[m], copy |-> h2.models[copy],
                                   list |-> h2.mapping[h2.models[copy].model_path].names] >>]

\* addModelToList without the while loop: the suffix is always '_1'
addModelToListFirstSuffix(w, model_element) ==
    LET model_name == w.h.models[model_element].name
        keys == Keys(w.selector.models_mapping)
        taken == model_name \in keys
        unique_name == IF taken THEN Append(model_name, 1) ELSE model_name
        w2 == IF taken THEN callRenameModel(w, model_element, unique_name) ELSE w
    IN  [w2 EXCEPT !.selector.models_mapping = Append(@, [key |-> unique_name, model |-> model_element]),
                   !.selector.loaded_models_paths = @ \cup {w.h.models[model_element].model_path},
                   !.hist.add = << [model_name |-> model_name, in_use |-> keys,
                                    unique_name |-> unique_name] >>]

addModelToList(w, model_element) ==
    LET model_name == w.h.models[model_element].name
        keys == Keys(w.selector.models_mapping)
        taken == model_name \in keys
        i == CHOOSE i \in 1..(Cardinality(keys) + 1) :
                 /\ Append(model_name, i) \notin keys
                 /\ \A j \in 1..(i - 1) : Append(model_name, j) \in keys
        unique_name == IF taken THEN Append(model_name, i) ELSE model_name
        w2 == IF taken THEN callRenameModel(w, model_element, unique_name) ELSE w
    IN  [w2 EXCEPT !.selector.models_mapping = Append(@, [key |-> unique_name, model |-> model_element]),
                   !.selector.loaded_models_paths = @ \cup {w.h.models[model_element].model_path},
                   !.hist.add = << [model_name |-> model_name, in_use |-> keys,
                                    unique_name |-> unique_name] >>]

\* #modelSelected: the click handler of a list item
modelSelected(w, model_name) ==
    LET model == w.h.models[Lookup(w.selector.models_mapping, model_name)]
    IN  [w EXCEPT !.editor = loadTextureProperties(
                                 loadTransformationsProperties(@, model.transformation_dict), model),
                  !.selector.selected_model_name = model_name]

\* #deleteModel: the click handler of a list item's delete button
deleteModelClick(w, model_name) ==
    LET model == Lookup(w.selector.models_mapping, model_name)
        model_path == w.h.models[model].model_path
        h2 == deleteModel(w.h, model)
        w2 == NoteDeleted(w, h2)
    IN  [w2 EXCEPT !.selector.selected_model_name = IF model_name = @ THEN NoName ELSE @,
                   !.editor = clearProperties(@),
                   !.selector.models_mapping = SelectSeq(@, LAMBDA entry : entry.key # model_name),
                   !.selector.loaded_models_paths =
                       IF ~checkIfModelHasDuplicates(h2, model_path) THEN @ \ {model_path} ELSE @]

RECURSIVE deleteAll(_, _)
deleteAll(h, list) ==
    IF list = << >> THEN h ELSE deleteAll(deleteModel(h, Head(list)), Tail(list))

clear3DModelsList(w) ==
    LET w2 == NoteDeleted(w, deleteAll(w.h, get3DModelsList(w.selector)))
    IN  [w2 EXCEPT !.selector.models_mapping = << >>,
                   !.selector.loaded_models_paths = {},
                   !.selector.selected_model_name = NoName]

(***************************************************************************)
(* main.js: renderCallBack and updateModelsToRender.  main.pc is where the *)
(* tick stands: "scheduled" (requestAnimationFrame or the timer pending),  *)
(* "load" (awaiting load3DObject), "texture" (awaiting setTexture),        *)
(* "dead" (the promise of renderCallBack was rejected: nothing is          *)
(* scheduled any more).                                                    *)
(***************************************************************************)
\* the first model of the list with the path, or NoModel
FirstWithPath(h, list, mp) ==
    IF \E k \in 1..Len(list) : h.models[list[k]].model_path = mp
    THEN list[CHOOSE k \in 1..Len(list) :
                  /\ h.models[list[k]].model_path = mp
                  /\ \A l \in 1..(k - 1) : h.models[list[l]].model_path # mp]
    ELSE NoModel

\* the loop of updateModelsToRender over the rest of the batch, up to its next
\* await; "draw" when the loop is through and models_to_render is refreshed
RECURSIVE updateModelsToRender(_)
updateModelsToRender(w) ==
    IF w.main.batch = << >>
    THEN [w EXCEPT !.main.models_to_render = get3DModelsList(w.selector), !.main.pc = "draw"]
    ELSE LET mp == Head(w.main.batch)
         IN  IF mp \in w.selector.loaded_models_paths
             THEN LET m == FirstWithPath(w.h, w.main.models_to_render, mp)
                  IN  IF m = NoModel
                      THEN \* addModelToList(null) throws a TypeError
                           [w EXCEPT !.main.pc = "dead", !.main.batch = << >>,
                                     !.hist.added_null = TRUE]
                      ELSE LET w2 == callDuplicateModel(w, m)
                               w3 == addModelToList(w2, Len(w2.h.models))
                           IN  updateModelsToRender([w3 EXCEPT !.main.batch = Tail(@)])
             ELSE [w EXCEPT !.main.pc = "load"]

\* the draw calls of one model: history notes a deleted Object3D being drawn
drawObjects(w, model) ==
    LET objects == w.h.models[model].objects
        drawn == {objects[k] : k \in 1..Len(objects)}
    IN  [w EXCEPT !.hist.drew_deleted = @ \/ (drawn \cap w.hist.tick_deleted # {})]

\* the loop of renderCallBack taking every model for the selected one
RECURSIVE renderModelsAsSelected(_)
renderModelsAsSelected(w) ==
    IF w.main.index > Len(w.main.models_to_render)
    THEN [w EXCEPT !.main.pc = "scheduled", !.main.index = 1, !.main.selected_model = NoName,
                   !.hist.tick_deleted = {}]
    ELSE LET model == w.main.models_to_render[w.main.index]
             w2 == [w EXCEPT !.h = setTransformation(@, model,
                                       readTransformationsProperties(w.editor))]
         IN  renderModelsAsSelected([drawObjects(w2, model) EXCEPT !.main.index = @ + 1])

\* the loop of renderCallBack over models_to_render from position index on, up
\* to its next await or to the end of the tick
RECURSIVE renderModels(_)
renderModels(w) ==
    IF w.main.index > Len(w.main.models_to_render)
    THEN [w EXCEPT !.main.pc = "scheduled", !.main.index = 1, !.main.selected_model = NoName,
                   !.hist.tick_deleted = {}]
    ELSE LET model == w.main.models_to_render[w.main.index]
         IN  IF w.main.selected_model = w.h.models[model].name
             THEN LET w2 == [w EXCEPT !.h = setTransformation(@, model,
                                              readTransformationsProperties(w.editor))]
                      read == readTextureProperties(w2.editor)
                      w3 == [w2 EXCEPT !.editor = read.editor]
                  IN  IF read.properties.set_texture
                      THEN [w3 EXCEPT !.h = setTexture(@, model, read.properties.image_id),
                                      !.main.pc = "texture"]
                      ELSE LET w4 == IF read.properties.clear
                                     THEN [w3 EXCEPT !.h = clearTexture(@, model)]
                                     ELSE w3
                           IN  renderModels([drawObjects(w4, model) EXCEPT !.main.index = @ + 1])
             ELSE renderModels([drawObjects(w, model) EXCEPT !.main.index = @ + 1])

\* renderCallBack from the end of updateModelsToRender on
renderAfterUpdate(w) ==
    IF w.main.pc = "draw"
    THEN renderModels([w EXCEPT !.main.selected_model = w.selector.selected_model_name,
                                !.main.index = 1])
    ELSE w

\* renderCallBack is called: it runs up to its first await
renderCallBack(w) ==
    LET w2 == IF w.created_models # << >>
              THEN [w EXCEPT !.main.batch = w.created_models, !.created_models = << >>]
              ELSE w
    IN  renderAfterUpdate(updateModelsToRender(w2))

\* load3DObject has returned the model of the batch's first path
renderCallBackLoaded(w) ==
    LET w2 == [w EXCEPT !.h = load3DObject(@, Head(w.main.batch))]
        w3 == addModelToList(w2, Len(w2.h.models))
    IN  renderAfterUpdate(updateModelsToRender([w3 EXCEPT !.main.batch = Tail(@)]))

\* setTexture has resolved: the image is uploaded
renderCallBackTextured(w) ==
    LET model == w.main.models_to_render[w.main.index]
    IN  renderModels([drawObjects(w, model) EXCEPT !.main.index = @ + 1])

\* load3DObject or setTexture has thrown: renderCallBack ends without a next tick
renderCallBackFailed(w) ==
    [w EXCEPT !.main.pc = "dead", !.main.batch = << >>, !.main.index = 1,
              !.main.selected_model = NoName, !.hist.tick_deleted = {}]

(***************************************************************************)
(* SceneLoaderSaver.#loadScene: the onload handler of the file reader.  A  *)
(* scene file is a sequence of entries [model_path, model_name,            *)
(* transformation_dict].                                                   *)
(***************************************************************************)
SceneNames == {<<1>>, <<1, 1>>}

\* every model of a saved scene has been moved, turned and scaled
SceneEntries ==
    [model_path : Paths, model_name : SceneNames, transformation_dict : {EditedDict}]

SceneFiles == UNION {[1..n -> SceneEntries] : n \in 1..MaxSceneLen}

\* the statements of the loop body after the model is there
placeLoadedModel(w, model, entry) ==
    LET w2 == callRenameModel(w, model, entry.model_name)
        w3 == [w2 EXCEPT !.h = setTransformation(@, model, entry.transformation_dict)]
    IN  addModelToList(w3, model)

\* the loop over the rest of the scene, up to its next await or to its end
RECURSIVE loadSceneLoop(_)
loadSceneLoop(w) ==
    IF w.scene_loader.scene = << >>
    THEN [w EXCEPT !.scene_loader.pc = "idle", !.scene_loader.loaded_models_paths = {}]
    ELSE LET m == Head(w.scene_loader.scene)
         IN  IF m.model_path \in w.scene_loader.loaded_models_paths
             THEN LET original_model == FirstWithPath(w.h, get3DModelsList(w.selector), m.model_path)
                  IN  IF original_model = NoModel
                      THEN \* undefined.duplicateModel() throws; the catch logs it
                           [w EXCEPT !.scene_loader = [pc |-> "idle", scene |-> << >>,
                                                       loaded_models_paths |-> {}]]
                      ELSE LET w2 == callDuplicateModel(w, original_model)
                               w3 == placeLoadedModel(w2, Len(w2.h.models), m)
                           IN  loadSceneLoop([w3 EXCEPT !.scene_loader.scene = Tail(@)])
             ELSE [w EXCEPT !.scene_loader.pc = "load"]

\* the file is read: the handler runs up to its first await
loadScene(w, scene) ==
    loadSceneLoop([clear3DModelsList(w) EXCEPT !.scene_loader.scene = scene])

\* load3DObject has returned the model of the first entry left
loadSceneLoaded(w) ==
    LET m == Head(w.scene_loader.scene)
        w2 == [w EXCEPT !.h = load3DObject(@, m.model_path),
                        !.scene_loader.loaded_models_paths = @ \cup {m.model_path}]
        w3 == placeLoadedModel(w2, Len(w2.h.models), m)
    IN  loadSceneLoop([w3 EXCEPT !.scene_loader.scene = Tail(@)])

\* load3DObject has thrown: the catch logs it and the handler ends
loadSceneFailed(w) ==
    [w EXCEPT !.scene_loader = [pc |-> "idle", scene |-> << >>, loaded_models_paths |-> {}]]

(***************************************************************************)
(* PreviewCanvas.  preview.loads counts, for every path, the setModel      *)
(* calls awaiting load3DObject; preview.callbacks counts the renderLoop    *)
(* callbacks that requestAnimationFrame or setTimeout holds.  History:     *)
(* preview.last_call is the path of the latest setModel call, and          *)
(* preview.failed is set once a load has thrown.                           *)
(***************************************************************************)
\* one frame turns the model by this much (in the model's angle unit)
ROTATION_AMOUNT == -1

disableRender(pv) == [pv EXCEPT !.render_enabled = FALSE]

enableRender(pv) == [pv EXCEPT !.render_enabled = TRUE, !.callbacks = @ + 1]

\* setModel up to its await
setModel(w, model_path) ==
    LET w2 == IF w.preview.model # NoModel
              THEN [w EXCEPT !.preview = disableRender(@),
                             !.h = deleteModel(@, w.preview.model)]
              ELSE w
    IN  IF model_path = NoPath
        THEN [w2 EXCEPT !.preview = disableRender([@ EXCEPT !.model = NoModel,
                                                            !.last_call = << model_path >>])]
        ELSE [w2 EXCEPT !.preview.loads[model_path] = @ + 1,
                        !.preview.last_call = << model_path >>]

\* load3DObject has returned to a setModel call
setModelLoaded(w, model_path) ==
    LET w2 == [w EXCEPT !.h = load3DObject(@, model_path)]
    IN  [w2 EXCEPT !.preview = enableRender([@ EXCEPT !.model = Len(w2.h.models),
                                                      !.loads[model_path] = @ - 1,
                                                      !.loaded = @ \cup {Len(w2.h.models)}])]

\* load3DObject has thrown: the setModel call ends
setModelFailed(w, model_path) ==
    [w EXCEPT !.preview.loads[model_path] = @ - 1, !.preview.failed = TRUE]

\* renderLoop without the check of #render_enabled
renderLoopUnchecked(w) ==
    IF w.preview.model = NoModel
    THEN [w EXCEPT !.preview.callbacks = @ - 1]
    ELSE LET model == w.preview.model
             transformation_dictionary ==
                 [w.h.models[model].transformation_dict EXCEPT !.rotation[2] = @ + ROTATION_AMOUNT]
         IN  [w EXCEPT !.h = setTransformation(@, model, transformation_dictionary)]

\* a scheduled renderLoop callback runs: one frame, and the next one is scheduled
renderLoop(w) ==
    IF ~w.preview.render_enabled
    THEN [w EXCEPT !.preview.callbacks = @ - 1]
    ELSE LET model == w.preview.model
             transformation_dictionary ==
                 [w.h.models[model].transformation_dict EXCEPT !.rotation[2] = @ + ROTATION_AMOUNT]
         IN  [w EXCEPT !.h = setTransformation(@, model, transformation_dictionary)]

(***************************************************************************)
(* The three matrices a vertex goes through.  The projection is modelled   *)
(* for a field of view of 90 degrees (the tangent of its half is 1), an    *)
(* aspect ratio of 1 and clipping planes that make A and B whole numbers.  *)
(***************************************************************************)
MaxNear == 2
MaxFar == 4

ClippingPlanes ==
    {planes \in (1..MaxNear) \X (2..MaxFar) :
         /\ planes[1] < planes[2]
         /\ (planes[1] + planes[2]) % (planes[2] - planes[1]) = 0
         /\ (2 * planes[1] * planes[2]) % (planes[2] - planes[1]) = 0}

\* Math.tan(degToRad(fov_angle / 2.0)) at fov_angle = 90
TanOfHalf(fov_angle) == CASE fov_angle = 90 -> 1

createProjectionMatrix(fov_angle, aspect_ratio, near_z, far_z) ==
    LET fov == TanOfHalf(fov_angle)
        A == (- far_z - near_z) \div (near_z - far_z)
        B == (2 * far_z * near_z) \div (near_z - far_z)
        proj_mat == << 1 \div (fov * aspect_ratio), 0, 0, 0,
                       0, 1 \div fov, 0, 0,
                       0, 0, A, B,
                       0, 0, 1, 0 >>
    IN  transposeMatrix(proj_mat)

PipelineDicts ==
    [translation : {<<0, 0, 0>>, <<1, -1, 2>>},
     rotation : {<<0, 0, 0>>, <<1, 0, 0>>, <<0, 1, 0>>, <<0, 0, 1>>, <<1, 2, 3>>},
     scale : {<<1, 1, 1>>, <<2, 1, 3>>}]

PipelineCameras ==
    {rotate(rotate(NewCamera(location), angle_x, "x"), angle_y, "y") :
         location \in {StartLocation, <<1, 2, -9, 1>>}, angle_x \in Turns, angle_y \in Turns}

\* points (w = 1) and a direction (w = 0)
PipelinePoints == AxisPoints \cup {<<1, 2, 3, 1>>, <<1, -1, 1, 0>>}

NewPipeline(dictionary, c, planes, point) ==
    [pc |-> "new",
     M |-> TransformationMatrixOf(dictionary),
     V |-> getCameraMatrix(c),
     P |-> createProjectionMatrix(90, 1, planes[1], planes[2]),
     p |-> point, product |-> point, in_turn |-> point]

(***************************************************************************)
(* Object3D.#calculateNormals.  positions is the array of vertices, three  *)
(* to a triangle, each <<x, y, z>>; entry k of the model is the code's     *)
(* index 3 * (k - 1).  A unit vector is written as the shortest vector of  *)
(* whole numbers in its direction: along an axis that is the unit vector   *)
(* itself, and two unit vectors are equal exactly when these are.  The     *)
(* triangles tried lie on faces of the unit cube, so that every face       *)
(* normal is along an axis and the sums of face normals are whole.         *)
(***************************************************************************)
MaxTriangles == 2

Abs(x) == IF x < 0 THEN -x ELSE x

RECURSIVE GCD(_, _)
GCD(a, b) == IF b = 0 THEN a ELSE GCD(b, a % b)

Vec4_subtract(this, B) == << this[1] - B[1], this[2] - B[2], this[3] - B[3], this[4] >>

crossProduct(this, B) ==
    << this[2] * B[3] - this[3] * B[2],
       this[3] * B[1] - this[1] * B[3],
       this[1] * B[2] - this[2] * B[1],
       0 >>

\* the division done at length 0 as well: 0 / 0 is not a number, written -1
normalizeUnguarded(this) ==
    LET g == GCD(GCD(Abs(this[1]), Abs(this[2])), Abs(this[3]))
    IN  IF g > 0
        THEN << this[1] \div g, this[2] \div g, this[3] \div g, 0 >>
        ELSE << -1, -1, -1, 0 >>

\* this / length, or the zero vector when the length is 0
normalize(this) ==
    LET g == GCD(GCD(Abs(this[1]), Abs(this[2])), Abs(this[3]))
    IN  IF g > 0
        THEN << this[1] \div g, this[2] \div g, this[3] \div g, 0 >>
        ELSE << 0, 0, 0, 0 >>

calculateNormal(v1, v2, v3) ==
    LET _v1 == << v1[1], v1[2], v1[3], 0 >>
        _v2 == << v2[1], v2[2], v2[3], 0 >>
        _v3 == << v3[1], v3[2], v3[3], 0 >>
        e1 == Vec4_subtract(_v2, _v1)
        e2 == Vec4_subtract(_v3, _v1)
        normal == normalize(crossProduct(e1, e2))
    IN  << normal[1], normal[2], normal[3] >>

\* one round of the inner loop: the vertex id at index k gets the normal
addToMapping(vertexes_mapping, id, k, normal_vec4) ==
    IF id \in DOMAIN vertexes_mapping
    THEN [vertexes_mapping EXCEPT ![id] = [normal |-> Vec4_add(@.normal, normal_vec4),
                                           indexes |-> @.indexes \cup {k}]]
    ELSE vertexes_mapping @@ (id :> [normal |-> normal_vec4, indexes |-> {k}])

\* the first loop, from the triangle at index k on
RECURSIVE mapVertexes(_, _, _)
mapVertexes(positions, k, vertexes_mapping) ==
    IF k > Len(positions)
    THEN vertexes_mapping
    ELSE LET v1 == positions[k]
             v2 == positions[k + 1]
             v3 == positions[k + 2]
             normal == calculateNormal(v1, v2, v3)
             normal_vec4 == << normal[1], normal[2], normal[3], 0 >>
             m1 == addToMapping(vertexes_mapping, v1, k, normal_vec4)
             m2 == addToMapping(m1, v2, k + 1, normal_vec4)
             m3 == addToMapping(m2, v3, k + 2, normal_vec4)
         IN  mapVertexes(positions, k + 3, m3)

\* every vertex with the normal of its own triangle
calculateNormalsByFace(positions) ==
    [k \in 1..Len(positions) |->
        LET first == k - ((k - 1) % 3)
        IN  calculateNormal(positions[first], positions[first + 1], positions[first + 2])]

calculateNormals(positions) ==
    LET vertexes_mapping == mapVertexes(positions, 1, << >>)
    IN  [k \in 1..Len(positions) |->
            IF \E v \in DOMAIN vertexes_mapping : k \in vertexes_mapping[v].indexes
            THEN LET v == CHOOSE v \in DOMAIN vertexes_mapping :
                              k \in vertexes_mapping[v].indexes
                     normal == normalize(vertexes_mapping[v].normal)
                 IN  << normal[1], normal[2], normal[3] >>
            ELSE << 0, 0, 0 >>]

\* the corners of the unit cube, and the triangles on its faces: three
\* different corners of a face in either orientation, and two that have
\* no area
Corner(n) == << n \div 4, (n \div 2) % 2, n % 2 >>

FaceTriples ==
    {t \in (0..7) \X (0..7) \X (0..7) :
         /\ t[1] < t[2]
         /\ t[2] < t[3]
         /\ \E axis \in 1..3 : /\ Corner(t[1])[axis] = Corner(t[2])[axis]
                                /\ Corner(t[2])[axis] = Corner(t[3])[axis]}

Triangles ==
    {<< Corner(1), Corner(1), Corner(3) >>, << Corner(0), Corner(4), Corner(4) >>}
        \cup {<< Corner(t[1]), Corner(t[2]), Corner(t[3]) >> : t \in FaceTriples}
        \cup {<< Corner(t[1]), Corner(t[3]), Corner(t[2]) >> : t \in FaceTriples}

\* the positions array of a list of triangles
RECURSIVE MeshOf(_)
MeshOf(triangles) ==
    IF triangles = << >> THEN << >> ELSE Head(triangles) \o MeshOf(Tail(triangles))

\* an Object3D whose geometry data has been read and not yet processed
NewObject3D(positions) == [pc |-> "new", positions |-> positions, normal |-> << >>]

(***************************************************************************)
(* Frame pacing at the end of renderCallBack (main.js) and of renderLoop   *)
(* (PreviewCanvas).  Time is counted in thirds of a millisecond, so that   *)
(* both frame budgets, 1000/60 ms and 1000/30 ms, are whole numbers.       *)
(***************************************************************************)
MaxStart == 2
MaxElapsed == 120

FPS == 60
FPS_LIMIT == (1000 * 3) \div FPS
PreviewCanvas_FPS == 30
PreviewCanvas_fps_limit == (1000 * 3) \div PreviewCanvas_FPS

Loops == {"main", "preview"}
BudgetOf(loop) == IF loop = "main" THEN FPS_LIMIT ELSE PreviewCanvas_fps_limit

\* the scheduling with the timer also taken when nothing is left of the budget
scheduleNextTickAtZero(limit, s_time, end) ==
    LET elapsed == end - s_time
        diff == limit - elapsed
    IN  IF diff >= 0 THEN [timer |-> TRUE, delay |-> diff] ELSE [timer |-> FALSE, delay |-> 0]

\* the last statements of a tick: setTimeout(callback, diff) or callback()
scheduleNextTick(limit, s_time, end) ==
    LET elapsed == end - s_time
        diff == limit - elapsed
    IN  IF diff > 0 THEN [timer |-> TRUE, delay |-> diff] ELSE [timer |-> FALSE, delay |-> 0]

\* a tick that has just been given the timestamp of its frame
FirstFrame(loop, s_time) ==
    [loop |-> loop, pc |-> "tick", s_time |-> s_time, end |-> s_time,
     timer |-> FALSE, delay |-> 0, waited |-> 0]

(***************************************************************************)
(* transposeMatrix on the matrices of the program and on Float32Arrays     *)
(* made of any sixteen numbers.                                            *)
(***************************************************************************)
MaxEntry == 2

\* the numbers a matrix is made of: small ones, and one no Float32Array keeps
MatrixEntries == ((-MaxEntry)..MaxEntry) \cup {Float32Exact + 1}

\* sixteen numbers to start from: nothing, all different, or a rotation
BaseMatrices ==
    { [n \in 1..16 |-> 0], [n \in 1..16 |-> n], createRotationMatrix(1, "x"),
      createRotationMatrix(1, "y"), createTranslationMatrix(1, 2, 3) }

\* new Float32Array(numbers), not yet transposed
NewMatrices(numbers) ==
    LET M == Float32Array16([n \in 1..16 |-> fround(numbers[n])])
    IN  [pc |-> "new", M |-> M, once |-> M, twice |-> M]

(***************************************************************************)
(* CameraControls, and the part of renderCallBack that reads it.  A stick  *)
(* is centred or at a limit on each axis.  Angles are in quarter turns     *)
(* here too: the stick of the rotation at its limit is taken to turn the   *)
(* camera by one of them a tick, where the code's limit is                 *)
(* (PI / 180) / rotation_smoothness.  Lengths are in tenths.               *)
(***************************************************************************)
Sticks == {"thumb_btn_rotation", "thumb_btn_position"}
DPads == {"dpad_up", "dpad_down"}
Deflections == (-1)..1

NewCameraControls ==
    [ thumbsticks_values |-> [camera_rotation |-> [x |-> 0, y |-> 0],
                              camera_position |-> [x |-> 0, y |-> 0]],
      thumbsticks_active |-> FALSE,
      dpad_active |-> FALSE,
      dpad_value |-> 0,
      moving |-> FALSE,
      target_stick |-> "null",
      target_dpad |-> "null" ]

readCameraControls(this) ==
    LET status_active == this.thumbsticks_active \/ this.dpad_active
        thumb_rot == this.thumbsticks_values.camera_rotation
        thumb_pos == this.thumbsticks_values.camera_position
        move_direction == << thumb_pos.x, this.dpad_value, -thumb_pos.y, 1 >>
    IN  [status_active |-> status_active,
         controls_values |-> [camera_rotation |-> thumb_rot,
                              camera_move_direction |-> normalize(move_direction)]]

\* mousedown on a stick
thumb_mousedown(this, target) ==
    [this EXCEPT !.target_stick = target,
                 !.thumbsticks_values = [camera_rotation |-> [x |-> 0, y |-> 0],
                                         camera_position |-> [x |-> 0, y |-> 0]],
                 !.moving = TRUE,
                 !.thumbsticks_active = TRUE]

\* mouseup anywhere, as the sticks hear it
thumb_mouseup(this) ==
    IF this.target_stick # "null"
    THEN [this EXCEPT !.thumbsticks_values = [camera_rotation |-> [x |-> 0, y |-> 0],
                                              camera_position |-> [x |-> 0, y |-> 0]],
                      !.moving = FALSE,
                      !.thumbsticks_active = FALSE,
                      !.target_stick = "null"]
    ELSE this

\* mousemove anywhere; the pointer has taken the stick to x_normalized, y_normalized
thumb_mousemove(this, x_normalized, y_normalized) ==
    IF this.moving
    THEN IF this.target_stick = "thumb_btn_rotation"
         THEN [this EXCEPT !.thumbsticks_values.camera_rotation =
                               [x |-> x_normalized, y |-> y_normalized]]
         ELSE [this EXCEPT !.thumbsticks_values.camera_position =
                               [x |-> x_normalized, y |-> y_normalized]]
    ELSE this

\* mousedown on a pad
dpad_mousedown(this, target) ==
    [this EXCEPT !.target_dpad = target,
                 !.dpad_value = IF target = "dpad_up" THEN 1
                                ELSE IF target = "dpad_down" THEN -1 ELSE @,
                 !.dpad_active = TRUE]

\* mouseup anywhere, as the pads hear it
dpad_mouseup(this) ==
    IF this.target_dpad # "null"
    THEN [this EXCEPT !.dpad_active = FALSE, !.dpad_value = 0, !.target_dpad = "null"]
    ELSE [this EXCEPT !.dpad_active = FALSE]

CAMERA_SPEED == 6

\* CAMERA_SPEED / FPS, in tenths
CameraStep == (10 * CAMERA_SPEED) \div FPS

\* renderCallBack applying the move of a reading and none of its rotations
moveByTheControls(c, this) ==
    LET camera_controls_output == readCameraControls(this)
        move_dir == camera_controls_output.controls_values.camera_move_direction
    IN  IF camera_controls_output.status_active THEN move(c, move_dir, CameraStep) ELSE c

\* renderCallBack from its first line to the last call it makes on the camera
applyCameraControls(c, this) ==
    LET camera_controls_output == readCameraControls(this)
        rotation == camera_controls_output.controls_values.camera_rotation
        move_dir == camera_controls_output.controls_values.camera_move_direction
        moved == move(c, move_dir, CameraStep)
        turned == IF rotation.x # 0 THEN rotate(moved, -rotation.x, "y") ELSE moved
    IN  IF camera_controls_output.status_active
        THEN IF rotation.y # 0 THEN rotate(turned, -rotation.y, "x") ELSE turned
        ELSE c

\* the places of the camera, in tenths
ControlledLocations ==
    {Vec4_add(Vec4_scale(StartLocation, 10), <<x, y, z, 0>>) :
         x \in (-MaxLocation)..MaxLocation, y \in (-MaxLocation)..MaxLocation,
         z \in (-MaxLocation)..MaxLocation}

(***************************************************************************)
(* ModelCreatorMenu: the pages of model paths.  The paths of the list are  *)
(* written 1, 2, ...  History: menu.clicks holds the last two buttons      *)
(* clicked and menu.shown what was displayed before each of them.  The     *)
(* setModel calls #startRendering makes on the canvases are the SetModel   *)
(* steps of the canvas.                                                    *)
(***************************************************************************)
MaxPaths == 12

NUM_CANVAS_PREVIEW == 4

\* Array.prototype.slice(start, end)
slice(array, start, end) ==
    LET len == Len(array)
        from == IF start < 0 THEN (IF len + start < 0 THEN 0 ELSE len + start)
                ELSE IF start > len THEN len ELSE start
        to == IF end < 0 THEN (IF len + end < 0 THEN 0 ELSE len + end)
              ELSE IF end > len THEN len ELSE end
    IN  [k \in 1..(IF to > from THEN to - from ELSE 0) |-> array[from + k]]

fillDisplayedModelsPath(this) ==
    LET start_index == this.models_start_index
        end_index == start_index + NUM_CANVAS_PREVIEW
    IN  [this EXCEPT !.displayed_models_path = slice(this.models_path_list, start_index, end_index)]

rollDisplayedModels(this) ==
    LET start_index == this.models_start_index + NUM_CANVAS_PREVIEW
        list_length == Len(this.models_path_list)
    IN  [this EXCEPT !.models_start_index = IF start_index >= list_length THEN 0 ELSE start_index]

rollBackDisplayedModels(this) ==
    LET start_index == this.models_start_index - NUM_CANVAS_PREVIEW
    IN  [this EXCEPT !.models_start_index =
                         IF start_index <= 0
                         THEN Len(this.models_path_list) - NUM_CANVAS_PREVIEW
                         ELSE start_index]

\* the menu the constructor leaves, for a list of n paths
NewModelCreatorMenu(n) ==
    fillDisplayedModelsPath([models_path_list |-> [k \in 1..n |-> k],
                             models_start_index |-> 0,
                             displayed_models_path |-> << >>,
                             clicks |-> << >>,
                             shown |-> << >>])

\* history: the last two entries
LastTwo(seq) == IF Len(seq) > 2 THEN Tail(seq) ELSE seq

click_next(this) ==
    [fillDisplayedModelsPath(rollDisplayedModels(this))
         EXCEPT !.clicks = LastTwo(Append(@, "next")),
                !.shown = LastTwo(Append(@, this.displayed_models_path))]

click_back(this) ==
    [fillDisplayedModelsPath(rollBackDisplayedModels(this))
         EXCEPT !.clicks = LastTwo(Append(@, "back")),
                !.shown = LastTwo(Append(@, this.displayed_models_path))]

(***************************************************************************)
(* The initial state: main() has run, nothing is loaded.                   *)
(***************************************************************************)
InitEditor ==
    /\ models = << >>
    /\ models_duplicates_mapping = [p \in Paths |-> NoDuplicates]
    /\ deleteObject_calls = [o \in ObjectIds |-> 0]
    /\ selector = [models_mapping |-> << >>, loaded_models_paths |-> {},
                   selected_model_name |-> NoName]
    /\ editor = [position |-> <<0, 0, 0>>, rotation |-> <<0, 0, 0>>, scale |-> <<1, 1, 1>>,
                 current_texture_id |-> 0, set_new_texture |-> FALSE, clear_texture |-> FALSE]
    /\ created_models = << >>
    /\ main = [models_to_render |-> << >>, pc |-> "scheduled", batch |-> << >>, index |-> 1,
               selected_model |-> NoName]
    /\ scene_loader = [pc |-> "idle", scene |-> << >>, loaded_models_paths |-> {}]
    /\ preview = [model |-> NoModel, render_enabled |-> FALSE, loads |-> [p \in Paths |-> 0],
                  callbacks |-> 0, loaded |-> {}, last_call |-> << >>, failed |-> FALSE]
    /\ hist = [tick_deleted |-> {}, drew_deleted |-> FALSE, dup |-> << >>, rename |-> << >>,
               add |-> << >>, kept |-> << >>, added_null |-> FALSE]

Init ==
    /\ InitEditor
    /\ menu = NewModelCreatorMenu(NUM_CANVAS_PREVIEW)
    /\ controls = NewCameraControls
    /\ matrices = NewMatrices(createIdentityMatrix)
    /\ pacing = FirstFrame("main", 0)
    /\ transformation = NewTransformation(DefaultDict)
    /\ camera = NewCamera(StartLocation)
    /\ pipeline = NewPipeline(DefaultDict, NewCamera(StartLocation), <<1, 2>>, <<0, 0, 0, 1>>)
    /\ normals = NewObject3D(<< <<0, 0, 0>>, <<1, 0, 0>>, <<0, 1, 0>> >>)

\* the pacing of either loop, from any timestamp of the first frame
InitPacing ==
    /\ InitEditor
    /\ menu = NewModelCreatorMenu(NUM_CANVAS_PREVIEW)
    /\ controls = NewCameraControls
    /\ matrices = NewMatrices(createIdentityMatrix)
    /\ pacing \in {FirstFrame(loop, s_time) : loop \in Loops, s_time \in 0..MaxStart}
    /\ transformation = NewTransformation(DefaultDict)
    /\ camera = NewCamera(StartLocation)
    /\ pipeline = NewPipeline(DefaultDict, NewCamera(StartLocation), <<1, 2>>, <<0, 0, 0, 1>>)
    /\ normals = NewObject3D(<< <<0, 0, 0>>, <<1, 0, 0>>, <<0, 1, 0>> >>)

\* a camera constructed anywhere near the place main.js puts it
InitCamera ==
    /\ InitEditor
    /\ menu = NewModelCreatorMenu(NUM_CANVAS_PREVIEW)
    /\ controls = NewCameraControls
    /\ matrices = NewMatrices(createIdentityMatrix)
    /\ pacing = FirstFrame("main", 0)
    /\ transformation = NewTransformation(DefaultDict)
    /\ camera \in {NewCamera(location) : location \in Locations}
    /\ pipeline = NewPipeline(DefaultDict, NewCamera(StartLocation), <<1, 2>>, <<0, 0, 0, 1>>)
    /\ normals = NewObject3D(<< <<0, 0, 0>>, <<1, 0, 0>>, <<0, 1, 0>> >>)

\* a model matrix, a camera matrix, a projection matrix and a point
InitPipeline ==
    /\ InitEditor
    /\ menu = NewModelCreatorMenu(NUM_CANVAS_PREVIEW)
    /\ controls = NewCameraControls
    /\ matrices = NewMatrices(createIdentityMatrix)
    /\ pacing = FirstFrame("main", 0)
    /\ transformation = NewTransformation(DefaultDict)
    /\ camera = NewCamera(StartLocation)
    /\ pipeline \in {NewPipeline(dictionary, c, planes, point) :
                         dictionary \in PipelineDicts, c \in PipelineCameras,
                         planes \in ClippingPlanes, point \in PipelinePoints}
    /\ normals = NewObject3D(<< <<0, 0, 0>>, <<1, 0, 0>>, <<0, 1, 0>> >>)

\* the positions of any mesh of a few triangles on the faces of the unit cube
InitNormals ==
    /\ InitEditor
    /\ menu = NewModelCreatorMenu(NUM_CANVAS_PREVIEW)
    /\ controls = NewCameraControls
    /\ matrices = NewMatrices(createIdentityMatrix)
    /\ pacing = FirstFrame("main", 0)
    /\ transformation = NewTransformation(DefaultDict)
    /\ camera = NewCamera(StartLocation)
    /\ pipeline = NewPipeline(DefaultDict, NewCamera(StartLocation), <<1, 2>>, <<0, 0, 0, 1>>)
    /\ \E n \in 1..MaxTriangles :
           \E triangles \in [1..n -> Triangles] : normals = NewObject3D(MeshOf(triangles))

\* setTransformation on any dictionary of quarter turns and whole numbers
InitTransformation ==
    /\ InitEditor
    /\ menu = NewModelCreatorMenu(NUM_CANVAS_PREVIEW)
    /\ controls = NewCameraControls
    /\ matrices = NewMatrices(createIdentityMatrix)
    /\ pacing = FirstFrame("main", 0)
    /\ transformation \in {NewTransformation(dictionary) : dictionary \in QuarterTurnDicts}
    /\ camera = NewCamera(StartLocation)
    /\ pipeline = NewPipeline(DefaultDict, NewCamera(StartLocation), <<1, 2>>, <<0, 0, 0, 1>>)
    /\ normals = NewObject3D(<< <<0, 0, 0>>, <<1, 0, 0>>, <<0, 1, 0>> >>)

\* a Float32Array made of a base with any one entry replaced by any number
InitTranspose ==
    /\ InitEditor
    /\ menu = NewModelCreatorMenu(NUM_CANVAS_PREVIEW)
    /\ controls = NewCameraControls
    /\ pacing = FirstFrame("main", 0)
    /\ transformation = NewTransformation(DefaultDict)
    /\ camera = NewCamera(StartLocation)
    /\ pipeline = NewPipeline(DefaultDict, NewCamera(StartLocation), <<1, 2>>, <<0, 0, 0, 1>>)
    /\ normals = NewObject3D(<< <<0, 0, 0>>, <<1, 0, 0>>, <<0, 1, 0>> >>)
    /\ \E base \in BaseMatrices, k \in 1..16, v \in MatrixEntries :
           matrices = NewMatrices([n \in 1..16 |-> IF n = k THEN v ELSE base[n]])

\* the camera where main.js puts it, the sticks and the pads untouched
InitControls ==
    /\ InitEditor
    /\ menu = NewModelCreatorMenu(NUM_CANVAS_PREVIEW)
    /\ matrices = NewMatrices(createIdentityMatrix)
    /\ controls = NewCameraControls
    /\ pacing = FirstFrame("main", 0)
    /\ transformation = NewTransformation(DefaultDict)
    /\ camera = NewCamera(Vec4_scale(StartLocation, 10))
    /\ pipeline = NewPipeline(DefaultDict, NewCamera(StartLocation), <<1, 2>>, <<0, 0, 0, 1>>)
    /\ normals = NewObject3D(<< <<0, 0, 0>>, <<1, 0, 0>>, <<0, 1, 0>> >>)

\* the menu of any list of up to MaxPaths model paths
InitMenu ==
    /\ InitEditor
    /\ \E n \in 1..MaxPaths : menu = NewModelCreatorMenu(n)
    /\ matrices = NewMatrices(createIdentityMatrix)
    /\ controls = NewCameraControls
    /\ pacing = FirstFrame("main", 0)
    /\ transformation = NewTransformation(DefaultDict)
    /\ camera = NewCamera(StartLocation)
    /\ pipeline = NewPipeline(DefaultDict, NewCamera(StartLocation), <<1, 2>>, <<0, 0, 0, 1>>)
    /\ normals = NewObject3D(<< <<0, 0, 0>>, <<1, 0, 0>>, <<0, 1, 0>> >>)

(***************************************************************************)
(* The environment is bounded: no more than MaxModels instances are ever   *)
(* asked for.  Every request holds its instance from the click on.         *)
(***************************************************************************)
PendingLoads == preview.loads["a.obj"] + preview.loads["a_1.obj"]

Requested ==
    Len(models) + Len(created_models) + Len(main.batch) + Len(scene_loader.scene) + PendingLoads

(***************************************************************************)
(* The user.                                                               *)
(***************************************************************************)
\* canvas_click: a preview canvas showing model_path is clicked
CanvasClick(model_path) ==
    /\ Len(created_models) < MaxQueue
    /\ Requested < MaxModels
    /\ Commit([World EXCEPT !.created_models = Append(@, model_path)])

SelectModel(model_name) ==
    /\ model_name \in Keys(selector.models_mapping)
    /\ Commit([modelSelected(World, model_name) EXCEPT !.hist.kept = << >>])

\* history: the transformation of the selected model when another one is deleted,
\* kept until the user next touches the panel or the list
DeleteClick(model_name) ==
    /\ model_name \in Keys(selector.models_mapping)
    /\ LET selected == selector.selected_model_name
           kept == IF selected \in Keys(selector.models_mapping) \ {model_name}
                   THEN << models[Lookup(selector.models_mapping, selected)].transformation_dict >>
                   ELSE << >>
       IN  Commit([deleteModelClick(World, model_name) EXCEPT !.hist.kept = kept])

\* the user types a transformation into the panel.  While no model is selected
\* the panel is read by no tick, and selecting a model overwrites all of it.
EditTransformation(dictionary) ==
    /\ selector.selected_model_name # NoName
    /\ Commit([World EXCEPT !.editor = loadTransformationsProperties(@, dictionary),
                            !.hist.kept = << >>])

PickImage ==
    /\ selector.selected_model_name # NoName
    /\ Commit([World EXCEPT !.editor = img_input_change(@, TextureImage), !.hist.kept = << >>])

ClearTexture ==
    /\ selector.selected_model_name # NoName
    /\ Commit([World EXCEPT !.editor = clearTextureClick(@), !.hist.kept = << >>])

LoadScene(scene) ==
    /\ scene_loader.pc = "idle"
    /\ Requested + Len(scene) <= MaxModels
    /\ Commit(loadScene(World, scene))

\* #startRendering: the tab is shown, or Next or Back is clicked
SetModel(model_path) ==
    /\ model_path # NoPath => (PendingLoads < MaxLoads /\ Requested < MaxModels)
    /\ Commit(setModel(World, model_path))

\* #stopRendering: the tab is hidden
StopRendering ==
    /\ preview.render_enabled
    /\ Commit([World EXCEPT !.preview = disableRender(@)])

(***************************************************************************)
(* The browser: scheduled callbacks run, awaited promises settle.          *)
(***************************************************************************)
Tick ==
    /\ main.pc = "scheduled"
    /\ Commit(renderCallBack(World))

TickLoaded ==
    /\ main.pc = "load"
    /\ Commit(renderCallBackLoaded(World))

TickTextured ==
    /\ main.pc = "texture"
    /\ Commit(renderCallBackTextured(World))

TickFailed ==
    /\ InFlight(main)
    /\ Commit(renderCallBackFailed(World))

SceneLoaded ==
    /\ scene_loader.pc = "load"
    /\ Commit(loadSceneLoaded(World))

SceneFailed ==
    /\ scene_loader.pc = "load"
    /\ Commit(loadSceneFailed(World))

PreviewLoaded(model_path) ==
    /\ preview.loads[model_path] > 0
    /\ preview.callbacks < MaxCallbacks
    /\ Commit(setModelLoaded(World, model_path))

PreviewFailed(model_path) ==
    /\ preview.loads[model_path] > 0
    /\ Commit(setModelFailed(World, model_path))

PreviewFrame ==
    /\ preview.callbacks > 0
    /\ preview.render_enabled =>
           -models[preview.model].transformation_dict.rotation[2] < MaxFrames
    /\ Commit(renderLoop(World))

(***************************************************************************)
(* Frame pacing at the end of renderCallBack and of renderLoop.            *)
(***************************************************************************)
\* the tick's work is done elapsed after the timestamp of its frame
TickEnds(elapsed) ==
    /\ pacing.pc = "tick"
    /\ LET end == pacing.s_time + elapsed
           next == scheduleNextTick(BudgetOf(pacing.loop), pacing.s_time, end)
       IN  pacing' = [pacing EXCEPT !.end = end, !.timer = next.timer, !.delay = next.delay,
                                    !.pc = IF next.timer THEN "timer" ELSE "frame"]
    /\ UNCHANGED << editor_vars, transformation, camera, pipeline, normals, matrices, controls, menu >>

\* setTimeout runs the callback, which requests the frame
TimerFires ==
    /\ pacing.pc = "timer"
    /\ pacing' = [pacing EXCEPT !.pc = "frame", !.waited = pacing.delay]
    /\ UNCHANGED << editor_vars, transformation, camera, pipeline, normals, matrices, controls, menu >>

\* requestAnimationFrame runs the tick with the timestamp of the frame
FrameStarts(s_time) ==
    /\ pacing.pc = "frame"
    /\ pacing' = FirstFrame(pacing.loop, s_time)
    /\ UNCHANGED << editor_vars, transformation, camera, pipeline, normals, matrices, controls, menu >>

(***************************************************************************)
(* setTransformation and getTransformationMatrix on one model, and the     *)
(* matrix applied to a point.                                              *)
(***************************************************************************)
SetTransformation ==
    /\ transformation.pc = "new"
    /\ transformation' = [transformation EXCEPT
                              !.matrix = TransformationMatrixOf(transformation.dictionary),
                              !.pc = "set"]
    /\ UNCHANGED << editor_vars, pacing, camera, pipeline, normals, matrices, controls, menu >>

ApplyTransformation(point) ==
    /\ transformation.pc = "set"
    /\ transformation' = [transformation EXCEPT
                              !.point = point,
                              !.image = applyTransformationMatrix(point, transformation.matrix),
                              !.pc = "applied"]
    /\ UNCHANGED << editor_vars, pacing, camera, pipeline, normals, matrices, controls, menu >>

(***************************************************************************)
(* The calls of renderCallBack on the camera.  The environment is bounded: *)
(* the camera stays within MaxLocation of where it starts, and its angles  *)
(* within Turns.                                                           *)
(***************************************************************************)
CameraRotate(angle, axis) ==
    /\ LET c == rotate(camera, angle, axis)
       IN  /\ c.angle_x \in Turns
           /\ c.angle_y \in Turns
           /\ camera' = [c EXCEPT !.sum_x = IF axis = "x" THEN @ + angle ELSE @,
                                  !.sum_y = IF axis = "y" THEN @ + angle ELSE @,
                                  !.last = [NoCall EXCEPT !.call = "rotate"]]
    /\ UNCHANGED << editor_vars, pacing, transformation, pipeline, normals, matrices, controls, menu >>

CameraMove(direction, speed) ==
    /\ LET c == move(camera, direction, speed)
       IN  /\ c.location \in Locations
           /\ camera' = [c EXCEPT !.last = [call |-> "move", from |-> camera.location,
                                            direction |-> direction, speed |-> speed]]
    /\ UNCHANGED << editor_vars, pacing, transformation, pipeline, normals, matrices, controls, menu >>

(***************************************************************************)
(* A point taken through model, view and projection: by the product of the *)
(* three matrices, and by one matrix after the other.                      *)
(***************************************************************************)
ApplyProduct ==
    /\ pipeline.pc \in {"new", "in turn"}
    /\ LET matrix == multiplyMatrices(pipeline.P, multiplyMatrices(pipeline.V, pipeline.M))
       IN  pipeline' = [pipeline EXCEPT
                            !.product = applyTransformationMatrix(pipeline.p, matrix),
                            !.pc = IF @ = "new" THEN "product" ELSE "both"]
    /\ UNCHANGED << editor_vars, pacing, transformation, camera, normals, matrices, controls, menu >>

ApplyInTurn ==
    /\ pipeline.pc \in {"new", "product"}
    /\ LET in_world == applyTransformationMatrix(pipeline.p, pipeline.M)
           in_view == applyTransformationMatrix(in_world, pipeline.V)
       IN  pipeline' = [pipeline EXCEPT
                            !.in_turn = applyTransformationMatrix(in_view, pipeline.P),
                            !.pc = IF @ = "new" THEN "in turn" ELSE "both"]
    /\ UNCHANGED << editor_vars, pacing, transformation, camera, normals, matrices, controls, menu >>

(***************************************************************************)
(* #processGeometryData with generate_normals set.                         *)
(***************************************************************************)
CalculateNormals ==
    /\ normals.pc = "new"
    /\ normals' = [normals EXCEPT !.normal = calculateNormals(normals.positions),
                                  !.pc = "done"]
    /\ UNCHANGED << editor_vars, pacing, transformation, camera, pipeline, matrices, controls, menu >>

(***************************************************************************)
(* transposeMatrix on a matrix, and on what it returned.                   *)
(***************************************************************************)
TransposeOnce ==
    /\ matrices.pc = "new"
    /\ matrices' = [matrices EXCEPT !.once = transposeMatrix(matrices.M), !.pc = "once"]
    /\ UNCHANGED << editor_vars, pacing, transformation, camera, pipeline, normals, controls, menu >>

TransposeTwice ==
    /\ matrices.pc = "once"
    /\ matrices' = [matrices EXCEPT !.twice = transposeMatrix(matrices.once), !.pc = "twice"]
    /\ UNCHANGED << editor_vars, pacing, transformation, camera, pipeline, normals, controls, menu >>

(***************************************************************************)
(* The mouse on the sticks and the pads, and the tick reading them.  The   *)
(* environment is bounded: the camera stays within MaxLocation tenths of   *)
(* where it starts, and its angles within a quarter turn.                  *)
(***************************************************************************)
StickMouseDown(target) ==
    /\ controls' = thumb_mousedown(controls, target)
    /\ UNCHANGED << editor_vars, pacing, transformation, camera, pipeline, normals, matrices, menu >>

DPadMouseDown(target) ==
    /\ controls' = dpad_mousedown(controls, target)
    /\ UNCHANGED << editor_vars, pacing, transformation, camera, pipeline, normals, matrices, menu >>

MouseMove(x_normalized, y_normalized) ==
    /\ controls' = thumb_mousemove(controls, x_normalized, y_normalized)
    /\ UNCHANGED << editor_vars, pacing, transformation, camera, pipeline, normals, matrices, menu >>

\* the document's two mouseup listeners, in the order they were added
MouseUp ==
    /\ controls' = dpad_mouseup(thumb_mouseup(controls))
    /\ UNCHANGED << editor_vars, pacing, transformation, camera, pipeline, normals, matrices, menu >>

\* renderCallBack up to the camera matrix it hands to the shader
TickCamera ==
    /\ LET c == applyCameraControls(camera, controls)
       IN  /\ c.location \in ControlledLocations
           /\ c.angle_x \in Deltas
           /\ c.angle_y \in Deltas
           /\ camera' = [c EXCEPT !.sum_x = c.angle_x, !.sum_y = c.angle_y,
                                  !.last = [call |-> "tick",
                                            moved |-> c.location # camera.location,
                                            turned |-> /\ c.angle_x # camera.angle_x
                                                       /\ c.angle_y # camera.angle_y]]
    /\ UNCHANGED << editor_vars, pacing, transformation, pipeline, normals, matrices, controls, menu >>

(***************************************************************************)
(* The Next and Back buttons of the model creator menu.                    *)
(***************************************************************************)
ClickNext ==
    /\ menu' = click_next(menu)
    /\ UNCHANGED << editor_vars, pacing, transformation, camera, pipeline, normals, matrices, controls >>

ClickBack ==
    /\ menu' = click_back(menu)
    /\ UNCHANGED << editor_vars, pacing, transformation, camera, pipeline, normals, matrices, controls >>

Next ==
    \/ \E model_path \in Paths : CanvasClick(model_path)
    \/ \E model_name \in Keys(selector.models_mapping) : SelectModel(model_name)
    \/ \E model_name \in Keys(selector.models_mapping) : DeleteClick(model_name)
    \/ \E dictionary \in Dicts : EditTransformation(dictionary)
    \/ PickImage
    \/ ClearTexture
    \/ \E scene \in SceneFiles : LoadScene(scene)
    \/ \E model_path \in Paths \cup {NoPath} : SetModel(model_path)
    \/ StopRendering
    \/ Tick
    \/ TickLoaded
    \/ TickTextured
    \/ TickFailed
    \/ SceneLoaded
    \/ SceneFailed
    \/ \E model_path \in Paths : PreviewLoaded(model_path)
    \/ \E model_path \in Paths : PreviewFailed(model_path)
    \/ PreviewFrame
    \/ \E elapsed \in 0..MaxElapsed : TickEnds(elapsed)
    \/ TimerFires
    \/ \E s_time \in 0..MaxStart : FrameStarts(s_time)
    \/ SetTransformation
    \/ \E point \in AxisPoints : ApplyTransformation(point)
    \/ \E angle \in Deltas, axis \in Axes : CameraRotate(angle, axis)
    \/ \E direction \in Directions, speed \in Speeds : CameraMove(direction, speed)
    \/ ApplyProduct
    \/ ApplyInTurn
    \/ CalculateNormals
    \/ TransposeOnce
    \/ TransposeTwice
    \/ \E target \in Sticks : StickMouseDown(target)
    \/ \E target \in DPads : DPadMouseDown(target)
    \/ \E x_normalized \in Deflections, y_normalized \in Deflections :
           MouseMove(x_normalized, y_normalized)
    \/ MouseUp
    \/ TickCamera
    \/ ClickNext
    \/ ClickBack

Spec == Init /\ [][Next]_vars

(***************************************************************************)
(* Parts of the program, each with the handlers that touch it.             *)
(***************************************************************************)
\* the ledger: the scene list and a preview canvas load the same files
NextLedger ==
    \/ \E model_path \in Paths : CanvasClick(model_path)
    \/ \E model_name \in Keys(selector.models_mapping) : DeleteClick(model_name)
    \/ \E model_path \in Paths \cup {NoPath} : SetModel(model_path)
    \/ Tick
    \/ TickLoaded
    \/ TickFailed
    \/ \E model_path \in Paths : PreviewLoaded(model_path)
    \/ \E model_path \in Paths : PreviewFailed(model_path)

SpecLedger == Init /\ [][NextLedger]_vars

\* the scene list, filled by canvas clicks and by scene files
NextScene ==
    \/ \E model_path \in Paths : CanvasClick(model_path)
    \/ \E model_name \in Keys(selector.models_mapping) : DeleteClick(model_name)
    \/ \E scene \in SceneFiles : LoadScene(scene)
    \/ Tick
    \/ TickLoaded
    \/ TickFailed
    \/ SceneLoaded
    \/ SceneFailed

SpecScene == Init /\ [][NextScene]_vars

\* the render tick and the properties panel
NextEditor ==
    \/ \E model_path \in Paths : CanvasClick(model_path)
    \/ \E model_name \in Keys(selector.models_mapping) : SelectModel(model_name)
    \/ \E model_name \in Keys(selector.models_mapping) : DeleteClick(model_name)
    \/ \E dictionary \in Dicts : EditTransformation(dictionary)
    \/ PickImage
    \/ ClearTexture
    \/ Tick
    \/ TickLoaded
    \/ TickTextured
    \/ TickFailed

SpecEditor == Init /\ [][NextEditor]_vars

\* one preview canvas
NextPreview ==
    \/ \E model_path \in Paths \cup {NoPath} : SetModel(model_path)
    \/ StopRendering
    \/ \E model_path \in Paths : PreviewLoaded(model_path)
    \/ \E model_path \in Paths : PreviewFailed(model_path)
    \/ PreviewFrame

SpecPreview == Init /\ [][NextPreview]_vars

\* the end of a tick and the request of the next one
NextPacing ==
    \/ \E elapsed \in 0..MaxElapsed : TickEnds(elapsed)
    \/ TimerFires
    \/ \E s_time \in 0..MaxStart : FrameStarts(s_time)

SpecPacing == InitPacing /\ [][NextPacing]_vars

\* setTransformation, then the matrix applied to a point
NextTransformation ==
    \/ SetTransformation
    \/ \E point \in AxisPoints : ApplyTransformation(point)

SpecTransformation == InitTransformation /\ [][NextTransformation]_vars

\* the camera turned and moved
NextCamera ==
    \/ \E angle \in Deltas, axis \in Axes : CameraRotate(angle, axis)
    \/ \E direction \in Directions, speed \in Speeds : CameraMove(direction, speed)

SpecCamera == InitCamera /\ [][NextCamera]_vars

\* a point through the product, and through the matrices in turn
NextPipeline ==
    \/ ApplyProduct
    \/ ApplyInTurn

SpecPipeline == InitPipeline /\ [][NextPipeline]_vars

\* the normals of a mesh generated
NextNormals == CalculateNormals

SpecNormals == InitNormals /\ [][NextNormals]_vars

\* transposeMatrix applied twice
NextTranspose ==
    \/ TransposeOnce
    \/ TransposeTwice

SpecTranspose == InitTranspose /\ [][NextTranspose]_vars

\* the mouse on the camera controls and the ticks of the main loop
NextControls ==
    \/ \E target \in Sticks : StickMouseDown(target)
    \/ \E target \in DPads : DPadMouseDown(target)
    \/ \E x_normalized \in Deflections, y_normalized \in Deflections :
           MouseMove(x_normalized, y_normalized)
    \/ MouseUp
    \/ TickCamera

SpecControls == InitControls /\ [][NextControls]_vars

\* the pages of the model creator menu
NextMenu ==
    \/ ClickNext
    \/ ClickBack

SpecMenu == InitMenu /\ [][NextMenu]_vars

(***************************************************************************)
(* The ledger and the geometry it guards.                                  *)
(***************************************************************************)
Instances == 1..Len(models)

ObjectsOf(m) == {models[m].objects[k] : k \in 1..Len(models[m].objects)}

\* the loaded instance a chain of duplicateModel calls started from
RECURSIVE OriginalOf(_)
OriginalOf(m) ==
    IF models[m].duplicate_of = NoModel THEN m ELSE OriginalOf(models[m].duplicate_of)

\* an original and the duplicates made from it: they share its Object3Ds
Family(o) == {m \in Instances : OriginalOf(m) = o}

LoadedObjects(o) == {<<o, g>> : g \in 1..Geometries(models[o].model_path)}

\* C1: as long as no instance is deleted twice, deleteObject has not been
\* called on any Object3D that an undeleted instance still references.
C1_GeometryOutlivesItsUsers ==
    (\A m \in Instances : models[m].deletes <= 1) =>
        \A m \in Instances :
            models[m].deletes = 0 => \A o \in ObjectsOf(m) : deleteObject_calls[o] = 0

\* C2: take an original with duplicates, each made from an instance not yet
\* deleted.  Once the original and all the duplicates have each been deleted
\* exactly once, deleteObject has been called exactly once on each shared
\* Object3D and the model path is no key of the ledger; while one of them is
\* undeleted (and none deleted twice) the shared objects are undeleted.
C2_FamilyReleasedOnceAtTheEnd ==
    \A o \in Instances :
        (/\ models[o].duplicate_of = NoModel
         /\ Cardinality(Family(o)) >= 2
         /\ \A m \in Family(o) : models[m].deletes <= 1 /\ ~models[m].of_deleted) =>
            IF \A m \in Family(o) : models[m].deletes = 1
            THEN /\ \A obj \in LoadedObjects(o) : deleteObject_calls[obj] = 1
                 /\ ~models_duplicates_mapping[models[o].model_path].present
            ELSE \A obj \in LoadedObjects(o) : deleteObject_calls[obj] = 0

\* C3: a second deleteModel call on an instance leaves the ledger as it is and
\* calls deleteObject on nothing.
C3_SecondDeleteChangesNothing ==
    [][\A m \in Instances :
           (models[m].deletes = 1 /\ models'[m].deletes = 2) =>
               /\ models_duplicates_mapping' = models_duplicates_mapping
               /\ deleteObject_calls' = deleteObject_calls]_vars

\* an original and a duplicate made from it, both undeleted
DuplicateRelationship(model_path) ==
    \E o, d \in Instances :
        /\ models[d].duplicate_of = o
        /\ models[o].model_path = model_path
        /\ models[o].deletes = 0
        /\ models[d].deletes = 0

Count(array, x) == Cardinality({k \in 1..Len(array) : array[k] = x})

\* C4: the instance duplicateModel returns has the source's transformation
\* dictionary and transformation matrix.
C4_DuplicateCopiesTransformation ==
    \A k \in 1..Len(hist.dup) :
        /\ hist.dup[k].copy.transformation_dict = hist.dup[k].source.transformation_dict
        /\ hist.dup[k].copy.transformation_matrix = hist.dup[k].source.transformation_matrix

\* C5: the instance duplicateModel returns has the source's model path and the
\* source's Object3Ds, and the list of the path then holds the name the two
\* instances have at that moment at least twice: once for each.
C5_DuplicateSharesObjectsAndRegistersBoth ==
    \A k \in 1..Len(hist.dup) :
        /\ hist.dup[k].copy.model_path = hist.dup[k].source.model_path
        /\ hist.dup[k].copy.objects = hist.dup[k].source.objects
        /\ hist.dup[k].copy.name = hist.dup[k].source.name
        /\ Count(hist.dup[k].list, hist.dup[k].source.name) >= 2

\* a loaded model with geometry was duplicated for the first time
C5_FirstDuplicate ==
    /\ hist.dup # << >>
    /\ hist.dup[1].copy.objects # << >>
    /\ Len(hist.dup[1].list) = 2

\* C6: renameModel on an instance whose name is listed under its path puts
\* new_name on the list, keeps the length of the list, leaves the other paths
\* alone, and every other undeleted instance of the path whose name was listed
\* before the call still has its name listed after it.
C6_RenameKeepsRegistrations ==
    \A k \in 1..Len(hist.rename) :
        LET r == hist.rename[k]
            before == r.before[r.model_path].names
            after == r.after[r.model_path].names
        IN  (r.before[r.model_path].present /\ includes(before, r.old_name)) =>
                /\ r.after[r.model_path].present
                /\ Len(after) = Len(before)
                /\ includes(after, r.new_name)
                /\ \A x \in r.users \ {r.model} :
                       includes(before, r.names[x]) => includes(after, r.names[x])
                /\ \A model_path \in Paths \ {r.model_path} :
                       r.after[model_path] = r.before[model_path]

\* C8: the names of the scene list are pairwise distinct, every model is
\* stored under its current name, and addModelToList stores a model whose name
\* is in use under name + '_' + i for the smallest i >= 1 not in use.
C8_DisplayNamesUnique ==
    /\ \A k, l \in 1..Len(selector.models_mapping) :
           selector.models_mapping[k].key = selector.models_mapping[l].key => k = l
    /\ \A k \in 1..Len(selector.models_mapping) :
           models[selector.models_mapping[k].model].name = selector.models_mapping[k].key
    /\ \A k \in 1..Len(hist.add) :
           LET a == hist.add[k]
           IN  IF a.model_name \in a.in_use
               THEN \E i \in 1..(Cardinality(a.in_use) + 1) :
                        /\ a.unique_name = Append(a.model_name, i)
                        /\ a.unique_name \notin a.in_use
                        /\ \A j \in 1..(i - 1) : Append(a.model_name, j) \in a.in_use
               ELSE a.unique_name = a.model_name

\* a model was added whose name and name + '_1' were both in use
C8_SecondSuffix ==
    /\ hist.add # << >>
    /\ hist.add[1].model_name \in hist.add[1].in_use
    /\ hist.add[1].unique_name = Append(hist.add[1].model_name, 2)

(***************************************************************************)
(* The render tick and the preview canvas.                                 *)
(***************************************************************************)
\* C9: while a render tick stands at one of its awaits no deleteObject call
\* has been made since it started, and no tick draws an Object3D that was
\* deleted after it started.
C9_NoDeleteDuringTick ==
    /\ InFlight(main) => hist.tick_deleted = {}
    /\ ~hist.drew_deleted

\* C10: at most one renderLoop callback is scheduled for the canvas.
C10_OneRenderLoopChain == preview.callbacks <= 1

C12_RenderLoopNeverStops == main.pc # "dead"

(***************************************************************************)
(* Frame pacing.                                                           *)
(***************************************************************************)
\* C13: after a tick that took e of the budget b = 1000/FPS ms, the next
\* frame is requested by a timer of exactly b - e when e < b, and at once,
\* with no timer, when e >= b; at 60 Hz, 5 ms leave a timer of 11 2/3 ms and
\* 30 ms leave none.
C13_NextTickAfterTheRestOfTheBudget ==
    LET e == pacing.end - pacing.s_time
        b == IF pacing.loop = "main" THEN 3000 \div 60 ELSE 3000 \div 30
    IN  pacing.pc # "tick" =>
            /\ e < b => pacing.timer /\ pacing.delay = b - e
            /\ e >= b => ~pacing.timer /\ pacing.pc = "frame"
            /\ pacing.pc = "frame" => pacing.waited = (IF e < b THEN b - e ELSE 0)
            /\ (pacing.loop = "main" /\ e = 15) => pacing.delay = 35
            /\ (pacing.loop = "main" /\ e = 90) => ~pacing.timer

\* the main loop's tick took 5 ms and the timer of 11 2/3 ms has fired
C13_FiveMilliseconds ==
    /\ pacing.loop = "main"
    /\ pacing.end - pacing.s_time = 15
    /\ pacing.pc = "frame"
    /\ pacing.timer
    /\ pacing.waited = 35

(***************************************************************************)
(* What the preview canvas and deleteModel release.  preview.loaded is     *)
(* history: the instances load3DObject has returned to setModel.           *)
(***************************************************************************)
\* C14: when no load of the preview canvas is pending, every model the canvas
\* ever loaded, except the one it displays, has had deleteObject called on
\* each of its Object3Ds.
C14_UndisplayedPreviewModelsReleased ==
    PendingLoads = 0 =>
        \A m \in preview.loaded \ {preview.model} :
            \A o \in LoadedObjects(m) : deleteObject_calls[o] > 0

\* C15: when deleteModel returns on an instance none of whose duplicates is
\* still in use, deleteObject has been called on each of its objects, its
\* objects array is empty and it has no texture.
C15_DeleteModelReleasesEverything ==
    [][\A m \in Instances :
           (/\ models'[m].deletes > models[m].deletes
            /\ \A n \in Family(OriginalOf(m)) \ {m} : models[n].deletes > 0)
           => /\ \A o \in ObjectsOf(m) : deleteObject_calls'[o] > 0
              /\ models'[m].objects = << >>
              /\ models'[m].model_texture_id = 0]_vars

(***************************************************************************)
(* The matrix of a transformation dictionary.  The operations on points    *)
(* below are the textbook ones, written without matrices.                  *)
(***************************************************************************)
Scaled(p, s) == << p[1] * s[1], p[2] * s[2], p[3] * s[3] >>

RotatedAboutZ(p, q) == << p[1] * Cos(q) - p[2] * Sin(q), p[1] * Sin(q) + p[2] * Cos(q), p[3] >>

RotatedAboutY(p, q) == << p[1] * Cos(q) + p[3] * Sin(q), p[2], p[3] * Cos(q) - p[1] * Sin(q) >>

RotatedAboutX(p, q) == << p[1], p[2] * Cos(q) - p[3] * Sin(q), p[2] * Sin(q) + p[3] * Cos(q) >>

Translated(p, t) == << p[1] + t[1], p[2] + t[2], p[3] + t[3] >>

\* C16: the matrix setTransformation computes is T.Rx.Ry.Rz.S: it is affine,
\* and applied to the origin or to a unit axis point it gives the point
\* scaled, then turned about Z, about Y and about X, then translated.
C16_ScaleThenZYXThenTranslate ==
    LET d == transformation.dictionary
        p == << transformation.point[1], transformation.point[2], transformation.point[3] >>
        q == Translated(RotatedAboutX(RotatedAboutY(RotatedAboutZ(Scaled(p, d.scale),
                 d.rotation[3]), d.rotation[2]), d.rotation[1]), d.translation)
    IN  /\ transformation.pc # "new" =>
               /\ transformation.matrix[4] = 0 /\ transformation.matrix[8] = 0
               /\ transformation.matrix[12] = 0 /\ transformation.matrix[16] = 1
        /\ transformation.pc = "applied" => transformation.image = << q[1], q[2], q[3], 1 >>

\* scale (2,1,2), a quarter turn about each axis, translation (1,0,-1): the
\* unit point of X goes to (2,0,0), (0,2,0), (0,2,0), (0,0,2) and (1,0,1)
C16_UnitXThroughAllFive ==
    /\ transformation.pc = "applied"
    /\ transformation.dictionary =
           [translation |-> <<1, 0, -1>>, rotation |-> <<1, 1, 1>>, scale |-> <<2, 1, 2>>]
    /\ transformation.point = <<1, 0, 0, 1>>
    /\ transformation.image = <<1, 0, 1, 1>>

(***************************************************************************)
(* The camera.                                                             *)
(***************************************************************************)
\* C17: after any rotate and move calls the camera matrix is
\* Rx(ax).Ry(ay).Translate(-position), ax and ay the sums of the deltas given
\* for axis 'x' and axis 'y': it is affine and takes the origin and the unit
\* axis points to the point moved by -position, then turned about Y by ay and
\* about X by ax.  A rotate call with another axis changes neither sum.
C17_CameraMatrixIsRxRyTranslate ==
    LET matrix == getCameraMatrix(camera)
    IN  /\ matrix[4] = 0 /\ matrix[8] = 0 /\ matrix[12] = 0 /\ matrix[16] = 1
        /\ \A point \in AxisPoints :
               LET p == Translated(point, << -camera.location[1], -camera.location[2],
                                             -camera.location[3] >>)
                   q == RotatedAboutX(RotatedAboutY(p, camera.sum_y), camera.sum_x)
               IN  applyTransformationMatrix(point, matrix) = << q[1], q[2], q[3], 1 >>

\* the camera has been turned about both axes and has moved since
C17_TurnedAndMoved ==
    /\ camera.sum_x = 1
    /\ camera.sum_y = -1
    /\ camera.last.call = "move"
    /\ camera.location # camera.last.from

\* C18: with zero accumulated rotation, move(d, amount) takes the camera from
\* p to p + amount.d, whatever the length of d; from (0,0,-10), move((0,0,1), 1)
\* gives (0,0,-9).
C18_MoveAddsAmountTimesDirection ==
    (camera.last.call = "move" /\ camera.sum_x = 0 /\ camera.sum_y = 0) =>
        LET p == camera.last.from
            d == camera.last.direction
            amount == camera.last.speed
        IN  /\ camera.location =
                   << p[1] + amount * d[1], p[2] + amount * d[2], p[3] + amount * d[3], 1 >>
            /\ (p = <<0, 0, -10, 1>> /\ d = <<0, 0, 1, 0>> /\ amount = 1)
                   => camera.location = <<0, 0, -9, 1>>

\* an unturned camera has moved by twice a direction that is not of unit length
C18_TwiceALongDirection ==
    /\ camera.last.call = "move"
    /\ camera.sum_x = 0 /\ camera.sum_y = 0
    /\ camera.last.from = <<1, -1, -11, 1>>
    /\ camera.last.direction = <<-1, 1, 1, 0>>
    /\ camera.last.speed = 2
    /\ camera.location = <<-1, 1, -9, 1>>

(***************************************************************************)
(* Model, view and projection.                                             *)
(***************************************************************************)
\* C19: applying multiplyMatrices(P, multiplyMatrices(V, M)) to a point gives
\* what applying M, then V to the result, then P to that result gives.
C19_ProductIsModelThenViewThenProjection ==
    pipeline.pc = "both" => pipeline.product = pipeline.in_turn

\* the point (1,2,3) through a model turned about all three axes, a camera
\* turned about both and a projection with planes at 1 and 3
C19_TurnedModelAndCamera ==
    /\ pipeline.pc = "both"
    /\ pipeline.M = TransformationMatrixOf(
           [translation |-> <<1, -1, 2>>, rotation |-> <<1, 2, 3>>, scale |-> <<2, 1, 3>>])
    /\ pipeline.V = getCameraMatrix(rotate(rotate(NewCamera(<<1, 2, -9, 1>>), 1, "x"), -1, "y"))
    /\ pipeline.P = createProjectionMatrix(90, 1, 1, 3)
    /\ pipeline.p = <<1, 2, 3, 1>>
    /\ pipeline.product # pipeline.p
    /\ pipeline.product[3] # applyTransformationMatrix(
           applyTransformationMatrix(pipeline.p, pipeline.M), pipeline.V)[3]

(***************************************************************************)
(* Generated normals.                                                      *)
(***************************************************************************)
\* the triangles of a mesh, by the index of their first vertex
TrianglesOf(positions) == {k \in 1..Len(positions) : k % 3 = 1}

Contains(positions, k, v) ==
    positions[k] = v \/ positions[k + 1] = v \/ positions[k + 2] = v

\* the sum of the unit normals of the triangles of a set
RECURSIVE SumOfFaceNormals(_, _)
SumOfFaceNormals(positions, triangles) ==
    IF triangles = {}
    THEN << 0, 0, 0 >>
    ELSE LET k == CHOOSE k \in triangles : TRUE
             unit == calculateNormal(positions[k], positions[k + 1], positions[k + 2])
         IN  Translated(SumOfFaceNormals(positions, triangles \ {k}), unit)

\* C20: with normal generation on, every vertex entry gets the normalized sum
\* of the unit face normals of all triangles that contain its position, so
\* entries of one position get one normal; the three vertices of the single
\* triangle (0,0,0), (1,0,0), (0,1,0) get (0,0,1).
C20_VertexNormalIsNormalizedSum ==
    normals.pc = "done" =>
        /\ \A k \in 1..Len(normals.positions) :
               LET v == normals.positions[k]
                   sum == SumOfFaceNormals(normals.positions,
                              {t \in TrianglesOf(normals.positions) :
                                   Contains(normals.positions, t, v)})
                   unit == normalize(<< sum[1], sum[2], sum[3], 0 >>)
               IN  normals.normal[k] = << unit[1], unit[2], unit[3] >>
        /\ \A k, l \in 1..Len(normals.positions) :
               normals.positions[k] = normals.positions[l]
                   => normals.normal[k] = normals.normal[l]
        /\ normals.positions = << <<0, 0, 0>>, <<1, 0, 0>>, <<0, 1, 0>> >>
               => normals.normal = << <<0, 0, 1>>, <<0, 0, 1>>, <<0, 0, 1>> >>

\* two triangles on two faces of the cube: the two corners they share have
\* the normal between the face normals (0,0,1) and (1,0,0), the others the
\* normal of their own face
C20_SharedEdge ==
    /\ normals.pc = "done"
    /\ normals.positions = << <<0, 0, 0>>, <<1, 0, 0>>, <<0, 1, 0>>,
                               <<0, 0, 0>>, <<0, 1, 0>>, <<0, 0, 1>> >>
    /\ normals.normal = << <<1, 0, 1>>, <<0, 0, 1>>, <<1, 0, 1>>,
                            <<1, 0, 1>>, <<1, 0, 1>>, <<1, 0, 0>> >>

\* the vectors handed to normalize for the vertex entry k: the cross product
\* of the edges of its triangle, and the sum of face normals at its position
CrossProductAt(positions, k) ==
    LET first == k - ((k - 1) % 3)
        v1 == positions[first]
        v2 == positions[first + 1]
        v3 == positions[first + 2]
    IN  crossProduct(<< v2[1] - v1[1], v2[2] - v1[2], v2[3] - v1[3], 0 >>,
                     << v3[1] - v1[1], v3[2] - v1[2], v3[3] - v1[3], 0 >>)

\* C21: normalize of a vector with x = y = z = 0 gives x = y = z = 0: a
\* position whose only triangle has no area, or whose face normals cancel,
\* gets the normal (0,0,0).
C21_NormalizeOfZeroIsZero ==
    normals.pc = "done" =>
        \A k \in 1..Len(normals.positions) :
            LET v == normals.positions[k]
                around == {t \in TrianglesOf(normals.positions) :
                               Contains(normals.positions, t, v)}
            IN  (\/ \A t \in around : CrossProductAt(normals.positions, t) = << 0, 0, 0, 0 >>
                 \/ SumOfFaceNormals(normals.positions, around) = << 0, 0, 0 >>)
                    => normals.normal[k] = << 0, 0, 0 >>

\* the normals of one triangle without area have been generated
C21_TriangleWithoutArea ==
    /\ normals.pc = "done"
    /\ normals.positions = << <<0, 0, 1>>, <<0, 0, 1>>, <<0, 1, 1>> >>
    /\ normals.normal = << <<0, 0, 0>>, <<0, 0, 0>>, <<0, 0, 0>> >>

(***************************************************************************)
(* C22: transposeMatrix(transposeMatrix(M)) equals M element by element,   *)
(* for every Float32Array M of sixteen numbers.                            *)
(***************************************************************************)
C22_TransposeTwiceIsTheMatrix ==
    matrices.pc = "twice" => \A n \in 1..16 : matrices.twice[n] = matrices.M[n]

\* a matrix that its transposition changes has been transposed twice
C22_TransposedTwice ==
    /\ matrices.pc = "twice"
    /\ matrices.once # matrices.M
    /\ \E n \in 1..16 : matrices.M[n] = Float32Exact

(***************************************************************************)
(* Movement of a turned camera.                                            *)
(***************************************************************************)
UnitDirections ==
    { <<1, 0, 0, 0>>, <<-1, 0, 0, 0>>, <<0, 1, 0, 0>>, <<0, -1, 0, 0>>,
      <<0, 0, 1, 0>>, <<0, 0, -1, 0>> }

\* the world direction the camera rotation matrix maps to a camera-space one
WorldDirectionOf(c, in_camera_space) ==
    CHOOSE w \in UnitDirections :
        applyTransformationMatrix(w, c.camera_rotation_matrix) = in_camera_space

\* where move(d, amount) has to take a camera that looks along forward
MovedAlongItsAxes(c, p, d, amount) ==
    LET right == WorldDirectionOf(c, <<1, 0, 0, 0>>)
        forward == WorldDirectionOf(c, <<0, 0, 1, 0>>)
    IN  << p[1] + amount * (d[1] * right[1] + d[3] * forward[1]),
           p[2] + amount * (d[1] * right[2] + d[3] * forward[2] + d[2]),
           p[3] + amount * (d[1] * right[3] + d[3] * forward[3]), 1 >>

\* C23: for any accumulated yaw and pitch (quarter turns here), move(d, amount)
\* displaces the camera by amount x (d.x.right + d.z.forward + (0, d.y, 0)),
\* right and forward being the world directions the camera rotation matrix
\* maps to camera-space +x and +z.
C23_MoveFollowsTheCameraAxes ==
    camera.last.call = "move" =>
        camera.location = MovedAlongItsAxes(camera, camera.last.from, camera.last.direction,
                                            camera.last.speed)

\* a camera pitched and yawed by a quarter turn has moved forward and sideways
C23_MovedWhileLookingUpAndAside ==
    /\ camera.last.call = "move"
    /\ camera.angle_x = 1
    /\ camera.angle_y = -1
    /\ camera.last.direction = <<1, 0, 1, 0>>
    /\ camera.location # camera.last.from

(***************************************************************************)
(* The tick and the transformations of the scene.                          *)
(***************************************************************************)
\* a step of renderCallBack: its start, or its return from an await
TickStep == Tick \/ TickLoaded \/ TickTextured

\* the models whose transformation values or matrix the step changes
Recomputed ==
    {m \in 1..Len(models) :
         \/ models'[m].transformation_dict # models[m].transformation_dict
         \/ models'[m].transformation_matrix # models[m].transformation_matrix}

\* C24: a main render tick recomputes the transformation of at most one model,
\* the one whose name is the selector's selected model name, from the current
\* values of the properties editor; every other model of the scene has the
\* same transformation values and matrix after the tick as before it.
C24_TickRecomputesTheSelectedModelOnly ==
    [][(Recomputed # {} /\ TickStep) =>
           /\ Cardinality(Recomputed) <= 1
           /\ \A m \in Recomputed :
                  /\ models[m].name = selector.selected_model_name
                  /\ models'[m].transformation_dict = readTransformationsProperties(editor)
                  /\ models'[m].transformation_matrix =
                         TransformationMatrixOf(readTransformationsProperties(editor))]_vars

\* a tick has given the selected one of two models the values of the editor
C24_SelectedOfTwoRecomputed ==
    /\ Len(main.models_to_render) = 2
    /\ main.pc = "scheduled"
    /\ selector.selected_model_name # NoName
    /\ \E m \in 1..Len(models) :
           /\ models[m].name = selector.selected_model_name
           /\ models[m].transformation_dict = EditedDict
           /\ models[m].transformation_matrix = TransformationMatrixOf(EditedDict)
    /\ \E m \in 1..Len(models) :
           /\ models[m].name # selector.selected_model_name
           /\ models[m].deletes = 0
           /\ models[m].transformation_dict = DefaultDict

(***************************************************************************)
(* The camera controls within one tick.                                    *)
(***************************************************************************)
\* C25: within one tick the camera-control state is read once, and the move
\* and the rotations that result are all applied before another event can
\* run: no step leaves the movement of a reading applied without its rotation,
\* or the reverse.
C25_MoveAndRotationsOfOneReading ==
    [][(\/ camera'.location # camera.location
        \/ camera'.angle_x # camera.angle_x
        \/ camera'.angle_y # camera.angle_y) =>
           LET camera_controls_output == readCameraControls(controls)
               rotation == camera_controls_output.controls_values.camera_rotation
               move_dir == camera_controls_output.controls_values.camera_move_direction
           IN  /\ camera_controls_output.status_active
               /\ camera'.location = move(camera, move_dir, CameraStep).location
               /\ camera'.angle_y = camera.angle_y - rotation.x
               /\ camera'.angle_x = camera.angle_x - rotation.y
               /\ controls' = controls]_vars

\* one tick has moved the camera and turned it about both axes, the stick of
\* the rotation and a pad being held
C25_MovedAndTurnedInOneTick ==
    /\ camera.last.call = "tick"
    /\ camera.last.moved
    /\ camera.last.turned

(***************************************************************************)
(* Deleting a model that is not the selected one.                          *)
(***************************************************************************)
\* C26: deleting a model other than the selected one does not change the
\* selected model: after the deletion and any number of ticks, with no user
\* edit of the properties editor, its translation, rotation and scale are what
\* they were before the deletion.
C26_DeletingAnotherKeepsTheSelected ==
    (hist.kept # << >> /\ selector.selected_model_name \in Keys(selector.models_mapping)) =>
        models[Lookup(selector.models_mapping, selector.selected_model_name)].transformation_dict
            = hist.kept[1]

(***************************************************************************)
(* The batch of updateModelsToRender.                                      *)
(***************************************************************************)
\* a step of renderCallBack that takes paths off the batch of getNewModels
BatchStep ==
    \/ created_models # << >> /\ created_models' = << >>
    \/ Len(main'.batch) < Len(main.batch)

\* load3DObject has thrown
LoadFailed == main'.pc = "dead" /\ ~hist'.added_null

\* C27: for every model path getNewModels returns in a tick, the same path
\* requested more than once included, updateModelsToRender adds exactly one new
\* model with that path to the scene list, and it never passes null to
\* addModelToList.
C27_OneModelForEveryRequestedPath ==
    [][(BatchStep /\ ~LoadFailed) =>
           LET batch == IF main.batch # << >> THEN main.batch ELSE created_models
               n == Len(batch) - Len(main'.batch)
               before == Len(selector.models_mapping)
           IN  /\ ~hist'.added_null
               /\ Len(selector'.models_mapping) = before + n
               /\ \A k \in 1..n :
                      models'[selector'.models_mapping[before + k].model].model_path = batch[k]]_vars

(***************************************************************************)
(* deleteModel on an instance that has nothing to do with the ledger.      *)
(***************************************************************************)
\* the instances the step calls deleteModel on for the first time
DeletedByTheStep == {m \in 1..Len(models) : models[m].deletes = 0 /\ models'[m].deletes = 1}

\* C28: deleteModel on an instance that was never duplicated and is no
\* duplicate itself leaves the duplicates ledger unchanged, even when other
\* instances of its model path are registered there, and calls deleteObject on
\* exactly the Object3Ds of that instance.
C28_DeleteOfAnUnrelatedInstance ==
    [][\A m \in DeletedByTheStep :
           (/\ models[m].duplicate_of = NoModel
            /\ \A d \in 1..Len(models) : models[d].duplicate_of # m) =>
               /\ models_duplicates_mapping' = models_duplicates_mapping
               /\ \A o \in ObjectIds :
                      deleteObject_calls'[o] =
                          deleteObject_calls[o]
                              + (IF \E g \in 1..Len(models[m].objects) : models[m].objects[g] = o
                                 THEN 1 ELSE 0)]_vars

(***************************************************************************)
(* setModel called again before the load of an earlier call has returned.  *)
(***************************************************************************)
\* C29: when setModel is called several times on a preview canvas without
\* waiting for the loads, then once every load has returned the canvas displays
\* the model of the most recent call, or no model with rendering disabled if
\* that call had an empty path, whatever the order the loads return in.
C29_CanvasShowsTheLatestCall ==
    (PendingLoads = 0 /\ ~preview.failed /\ preview.last_call # << >>) =>
        IF preview.last_call[1] = NoPath
        THEN preview.model = NoModel /\ ~preview.render_enabled
        ELSE /\ preview.model # NoModel
             /\ models[preview.model].model_path = preview.last_call[1]

(***************************************************************************)
(* The pages of the model creator menu.                                    *)
(***************************************************************************)
\* C30: in the model creator menu with more than one page of model paths, Back
\* undoes Next: from any page, clicking Next and then Back displays the model
\* paths that were displayed before the two clicks.
C30_BackUndoesNext ==
    (Len(menu.models_path_list) > NUM_CANVAS_PREVIEW /\ menu.clicks = << "next", "back" >>) =>
        menu.displayed_models_path = menu.shown[1]

====
